---- MODULE Spec2Model ----
(***************************************************************************)
(* The request handler of express-graphql (src/src/index.ts) as a state    *)
(* machine: one handler run, from the call of graphqlMiddleware to the     *)
(* settling of the promise it returns.  Every step of the run is one       *)
(* action; the values the user's hooks and the engine return are chosen    *)
(* when the handler calls them.                                            *)
(***************************************************************************)
EXTENDS Integers, Sequences, FiniteSets, TLC

VARIABLES
    request,      \* the inbound request (never written by the handler)
    options,      \* the argument of graphqlHTTP: a value or a function
    response,     \* the response object: statusCode, headers, writes
    pc,           \* the handler's position
    userOptions,  \* let userOptions
    firstUserOptions, \* userOptions as the first call of options left it
    finalOptions, \* let finalOptions
    params,       \* let params
    showGraphiQL, \* let showGraphiQL
    documentAST,  \* let documentAST
    result,       \* let result
    thrown,       \* the value travelling to the catch clause
    calls,        \* the functions the handler has called so far, in order
    promise,      \* the promise graphqlMiddleware returned
    previous,     \* the run of the handler that came before this one, if any
    other,        \* the locals of a second run of the handler, while suspended
    callerGraphiql \* the properties assigned on the caller's graphiql object

vars == <<request, options, response, pc, userOptions, firstUserOptions, finalOptions,
          params, showGraphiQL, documentAST, result, thrown, calls, promise,
          previous, other, callerGraphiql>>

---------------------------------------------------------------------------
(* JavaScript values, as far as the handler inspects them. *)

Undefined == [t |-> "undefined", s |-> ""]
Null      == [t |-> "null", s |-> ""]
Str(s)    == [t |-> "string", s |-> s]
Num(s)    == [t |-> "number", s |-> s]
Obj(s)    == [t |-> "object", s |-> s]

\* typeof v
TypeOf(v) == IF v.t \in {"null", "array"} THEN "object" ELSE v.t

\* a ?? b
Coalesce(a, b) == IF a.t \in {"undefined", "null"} THEN b ELSE a

---------------------------------------------------------------------------
(* JSON.  A text that is parsed is handled as the sequence of its          *)
(* characters; a parsed value is a tree: t is its JSON type, n the number   *)
(* (1 for true), chars the characters of a string or of the key of an       *)
(* object entry, items the elements of an array, the entries of an object   *)
(* or the value of an entry.  The texts hold no escape sequence, sign,      *)
(* fraction or exponent.                                                    *)

JsonValue(t, n, chars, items) == [t |-> t, n |-> n, chars |-> chars, items |-> items]

JsonNull           == JsonValue("null", 0, <<>>, <<>>)
JsonBoolean(b)     == JsonValue("boolean", IF b THEN 1 ELSE 0, <<>>, <<>>)
JsonNumber(n)      == JsonValue("number", n, <<>>, <<>>)
JsonString(chars)  == JsonValue("string", 0, chars, <<>>)
JsonArray(items)   == JsonValue("array", 0, <<>>, items)
JsonEntry(key, v)  == JsonValue("entry", 0, key, <<v>>)
JsonObject(entries) == JsonValue("object", 0, <<>>, entries)

\* is v a parsed JSON value (and not one of the plain values above)?
IsJsonValue(v) == "items" \in DOMAIN v

\* the string made of the characters
RECURSIVE TextOf(_)
TextOf(chars) == IF Len(chars) = 0 THEN "" ELSE chars[1] \o TextOf(Tail(chars))

DigitChar(d) ==
    CASE d = 0 -> "0" [] d = 1 -> "1" [] d = 2 -> "2" [] d = 3 -> "3" [] d = 4 -> "4"
      [] d = 5 -> "5" [] d = 6 -> "6" [] d = 7 -> "7" [] d = 8 -> "8" [] d = 9 -> "9"

RECURSIVE DigitChars(_)
DigitChars(n) ==
    IF n < 10 THEN <<DigitChar(n)>> ELSE Append(DigitChars(n \div 10), DigitChar(n % 10))

\* JSON.stringify(v), as characters
RECURSIVE JsonStringifyChars(_)
RECURSIVE JsonStringifyItems(_, _)
JsonStringifyChars(v) ==
    CASE v.t = "null"    -> <<"n", "u", "l", "l">>
      [] v.t = "boolean" -> IF v.n = 1 THEN <<"t", "r", "u", "e">>
                            ELSE <<"f", "a", "l", "s", "e">>
      [] v.t = "number"  -> DigitChars(v.n)
      [] v.t = "string"  -> <<"\"">> \o v.chars \o <<"\"">>
      [] v.t = "array"   -> <<"[">> \o JsonStringifyItems(v.items, 1) \o <<"]">>
      [] v.t = "object"  -> <<"{">> \o JsonStringifyItems(v.items, 1) \o <<"}">>
      [] v.t = "entry"   -> <<"\"">> \o v.chars \o <<"\"", ":">>
                               \o JsonStringifyChars(v.items[1])

JsonStringifyItems(items, i) ==
    IF i > Len(items) THEN <<>>
    ELSE (IF i > 1 THEN <<",">> ELSE <<>>)
            \o JsonStringifyChars(items[i]) \o JsonStringifyItems(items, i + 1)

\* JSON.parse: a recursive descent over the characters.  The outcome of a
\* step is the value read and the position after it.
Parsed(value, next) == [ok |-> TRUE, value |-> value, next |-> next]
NotParsed == [ok |-> FALSE, value |-> JsonNull, next |-> 0]

IsWhitespace(c) == c \in {" ", "\t", "\n", "\r"}
IsDigit(c) == c \in {"0", "1", "2", "3", "4", "5", "6", "7", "8", "9"}

DigitValue(c) ==
    CASE c = "0" -> 0 [] c = "1" -> 1 [] c = "2" -> 2 [] c = "3" -> 3 [] c = "4" -> 4
      [] c = "5" -> 5 [] c = "6" -> 6 [] c = "7" -> 7 [] c = "8" -> 8 [] c = "9" -> 9

RECURSIVE SkipWhitespace(_, _)
SkipWhitespace(cs, i) ==
    IF i <= Len(cs) /\ IsWhitespace(cs[i]) THEN SkipWhitespace(cs, i + 1) ELSE i

StartsWith(cs, i, word) ==
    /\ i + Len(word) - 1 <= Len(cs)
    /\ SubSeq(cs, i, i + Len(word) - 1) = word

RECURSIVE ParseDigits(_, _, _)
ParseDigits(cs, i, n) ==
    IF i <= Len(cs) /\ IsDigit(cs[i])
    THEN ParseDigits(cs, i + 1, n * 10 + DigitValue(cs[i]))
    ELSE Parsed(JsonNumber(n), i)

\* a number: a lone 0, or digits that do not start with 0
ParseNumber(cs, i) ==
    IF cs[i] = "0" THEN Parsed(JsonNumber(0), i + 1) ELSE ParseDigits(cs, i, 0)

\* the characters of a string, from the one after the opening quote
RECURSIVE ParseString(_, _, _)
ParseString(cs, i, chars) ==
    IF i > Len(cs) THEN NotParsed
    ELSE IF cs[i] = "\"" THEN Parsed(JsonString(chars), i + 1)
    ELSE ParseString(cs, i + 1, Append(chars, cs[i]))

RECURSIVE ParseJsonValue(_, _)
RECURSIVE ParseElements(_, _, _)
RECURSIVE ParseMembers(_, _, _)
ParseJsonValue(cs, from) ==
    LET i == SkipWhitespace(cs, from)
    IN  IF i > Len(cs) THEN NotParsed
        ELSE IF cs[i] = "{"
             THEN LET j == SkipWhitespace(cs, i + 1)
                  IN  IF j <= Len(cs) /\ cs[j] = "}" THEN Parsed(JsonObject(<<>>), j + 1)
                      ELSE ParseMembers(cs, j, <<>>)
        ELSE IF cs[i] = "["
             THEN LET j == SkipWhitespace(cs, i + 1)
                  IN  IF j <= Len(cs) /\ cs[j] = "]" THEN Parsed(JsonArray(<<>>), j + 1)
                      ELSE ParseElements(cs, j, <<>>)
        ELSE IF cs[i] = "\"" THEN ParseString(cs, i + 1, <<>>)
        ELSE IF IsDigit(cs[i]) THEN ParseNumber(cs, i)
        ELSE IF StartsWith(cs, i, <<"n", "u", "l", "l">>) THEN Parsed(JsonNull, i + 4)
        ELSE IF StartsWith(cs, i, <<"t", "r", "u", "e">>)
             THEN Parsed(JsonBoolean(TRUE), i + 4)
        ELSE IF StartsWith(cs, i, <<"f", "a", "l", "s", "e">>)
             THEN Parsed(JsonBoolean(FALSE), i + 5)
        ELSE NotParsed

\* the elements of an array, from the start of an element
ParseElements(cs, i, items) ==
    LET e == ParseJsonValue(cs, i)
        j == SkipWhitespace(cs, e.next)
    IN  IF ~e.ok \/ j > Len(cs) THEN NotParsed
        ELSE IF cs[j] = "," THEN ParseElements(cs, j + 1, Append(items, e.value))
        ELSE IF cs[j] = "]" THEN Parsed(JsonArray(Append(items, e.value)), j + 1)
        ELSE NotParsed

\* the entries of an object, from the start of a key
ParseMembers(cs, from, entries) ==
    LET i == SkipWhitespace(cs, from)
    IN  IF i > Len(cs) \/ cs[i] # "\"" THEN NotParsed
        ELSE LET k == ParseString(cs, i + 1, <<>>)
                 c == SkipWhitespace(cs, k.next)
             IN  IF ~k.ok \/ c > Len(cs) \/ cs[c] # ":" THEN NotParsed
                 ELSE LET e == ParseJsonValue(cs, c + 1)
                          j == SkipWhitespace(cs, e.next)
                          entry == JsonEntry(k.value.chars, e.value)
                      IN  IF ~e.ok \/ j > Len(cs) THEN NotParsed
                          ELSE IF cs[j] = "," THEN ParseMembers(cs, j + 1, Append(entries, entry))
                          ELSE IF cs[j] = "}"
                               THEN Parsed(JsonObject(Append(entries, entry)), j + 1)
                          ELSE NotParsed

\* JSON.parse(text) on the characters of the text: one value, then nothing
\* but whitespace
JsonParseChars(cs) ==
    LET r == ParseJsonValue(cs, 1)
    IN  IF r.ok /\ SkipWhitespace(cs, r.next) > Len(cs) THEN r ELSE NotParsed

\* obj[key] of a parsed object: the last entry with the key, else undefined
JsonGet(obj, key) ==
    LET having == {i \in 1..Len(obj.items) : obj.items[i].chars = key}
    IN  IF having = {} THEN Undefined
        ELSE obj.items[CHOOSE i \in having : \A j \in having : j <= i].items[1]

\* a parsed value as the handler sees it: a string as a plain string
JsValue(v) == IF IsJsonValue(v) /\ v.t = "string" THEN Str(TextOf(v.chars)) ELSE v

---------------------------------------------------------------------------
(* The structured values and the texts of the model. *)

\* the most elements an array, and entries an object, of the structured
\* values has
MaxItems == 2

KeyNames == << <<"a">>, <<"b">>, <<"c">> >>

JsonAtoms ==
    { JsonNull, JsonBoolean(TRUE), JsonNumber(0), JsonNumber(12),
      JsonString(<<>>), JsonString(<<"a", "b">>) }

StructuredValues ==
    JsonAtoms
    \cup { JsonArray(items) : items \in UNION {[1..k -> JsonAtoms] : k \in 0..MaxItems} }
    \cup { JsonObject([i \in 1..Len(values) |-> JsonEntry(KeyNames[i], values[i])]) :
              values \in UNION {[1..k -> JsonAtoms] : k \in 0..MaxItems} }
    \cup { JsonArray(<<JsonArray(<<>>), JsonObject(<<JsonEntry(<<"a">>, JsonNumber(1))>>)>>),
           JsonObject(<<JsonEntry(<<"a">>, JsonArray(<<JsonBoolean(FALSE), JsonNull>>))>>) }

QueryChars    == <<"{", " ", "h", "e", "l", "l", "o", " ", "}">>
MutationChars == <<"m", "u", "t", "a", "t", "i", "o", "n", " ", "{", " ", "m", " ", "}">>
QueryKey      == <<"q", "u", "e", "r", "y">>
VariablesKey  == <<"v", "a", "r", "i", "a", "b", "l", "e", "s">>
OperationNameKey ==
    <<"o", "p", "e", "r", "a", "t", "i", "o", "n", "N", "a", "m", "e">>
RawKey        == <<"r", "a", "w">>

\* {"a":1}
VariablesChars == JsonStringifyChars(JsonObject(<<JsonEntry(<<"a">>, JsonNumber(1))>>))

\* {bad
BadJsonChars == <<"{", "b", "a", "d">>

\* {"query":"{ hello }"}
QueryBodyChars ==
    JsonStringifyChars(JsonObject(<<JsonEntry(QueryKey, JsonString(QueryChars))>>))

\* the same object for a mutation, with "raw":false and a leading space
MutationBodyChars ==
    <<" ">> \o JsonStringifyChars(JsonObject(<<JsonEntry(QueryKey, JsonString(MutationChars)),
                                               JsonEntry(RawKey, JsonBoolean(FALSE))>>))

\* [1]
ArrayBodyChars == JsonStringifyChars(JsonArray(<<JsonNumber(1)>>))

\* {"a":"</b>"}
SlashVariablesChars ==
    JsonStringifyChars(JsonObject(<<JsonEntry(<<"a">>, JsonString(<<"<", "/", "b", ">">>))>>))

\* the texts the model parses, as characters
CharSeqs ==
    { JsonStringifyChars(v) : v \in StructuredValues }
    \cup { VariablesChars, BadJsonChars, QueryBodyChars, MutationBodyChars, ArrayBodyChars,
           SlashVariablesChars }

\* the text of each of them
TextOfChars == [cs \in CharSeqs |-> TextOf(cs)]

\* the characters of each of these texts
CharsOf ==
    [text \in {TextOfChars[cs] : cs \in CharSeqs} |->
        CHOOSE cs \in CharSeqs : TextOfChars[cs] = text]

Chars(text) == CharsOf[text]

\* JSON.parse(text) throws / returns
JsonValid(text) == JsonParseChars(Chars(text)).ok

JsonParse(text) == JsonParseChars(Chars(text)).value

---------------------------------------------------------------------------
(* Errors.  kind: "http" (http-errors HttpError), "graphql" (GraphQLError), *)
(* "error" (any other Error), "value" (a thrown non-Error).  status and     *)
(* headers are those of an HttpError, or of the originalError a             *)
(* GraphQLError wraps; status NoStatus when there is none.                  *)

NoStatus == 0

HttpError(status, message, headers) ==
    [kind |-> "http", status |-> status, message |-> message, headers |-> headers]

GraphQLError(message, status, headers) ==
    [kind |-> "graphql", status |-> status, message |-> message, headers |-> headers]

PlainError(message) ==
    [kind |-> "error", status |-> NoStatus, message |-> message, headers |-> <<>>]

NonError(message) ==
    [kind |-> "value", status |-> NoStatus, message |-> message, headers |-> <<>>]

\* throw e  /  throw [e1, e2, ...]
One(e)     == [isArray |-> FALSE, items |-> <<e>>]
Many(errs) == [isArray |-> TRUE, items |-> errs]
Nothing    == [isArray |-> FALSE, items |-> <<>>]

\* devAssert(false, message)
TypeError(message) == PlainError(message)

---------------------------------------------------------------------------
(* The request body (src/src/parseBody.ts). *)

\* A keyed object holding the four keys getGraphQLParams looks up; a key
\* the object lacks is Undefined.
Keyed(q, v, o, r) == [query |-> q, variables |-> v, operationName |-> o, raw |-> r]
EmptyObject == Keyed(Undefined, Undefined, Undefined, Undefined)

\* req.body as an earlier middleware left it.
BodyUnparsed      == [t |-> "undefined", s |-> "", o |-> EmptyObject]
BodyObject(o)     == [t |-> "object", s |-> "", o |-> o]
BodyString(s)     == [t |-> "string", s |-> s, o |-> EmptyObject]
BodyBuffer        == [t |-> "buffer", s |-> "", o |-> EmptyObject]
BodyNull          == [t |-> "null", s |-> "", o |-> EmptyObject]
BodyNumber        == [t |-> "number", s |-> "", o |-> EmptyObject]

\* The content-type header: absent, well-formed (media type and charset
\* parameter, "" when it has none), or one contentType.parse rejects.
NoContentType       == [t |-> "absent", type |-> "", charset |-> ""]
ContentType(ty, cs) == [t |-> "ok", type |-> ty, charset |-> cs]
BadContentType      == [t |-> "invalid", type |-> "", charset |-> ""]

\* String.prototype.toLowerCase on the header values the model draws.
ToLowerCase(s) ==
    CASE s = "UTF-8"    -> "utf-8"
      [] s = "GZIP"     -> "gzip"
      [] s = "Identity" -> "identity"
      [] s = "Br"       -> "br"
      [] s = "UTF-16LE" -> "utf-16le"
      [] OTHER          -> s

\* 100 * 1024
MaxSize == 102400

\* The texts a request stream decodes to, and what the three parsers of
\* parseBody make of each: jsonObjRegex, JSON.parse, URLSearchParams.
QueryText    == "{ hello }"
MutationText == "mutation { m }"

\* a test that lets every text through to JSON.parse
JsonObjRegexTestAnyText(text) == TRUE

\* jsonObjRegex.test(text): /^[ \t\n\r]*\{/
OpensObject(cs) ==
    LET i == SkipWhitespace(cs, 1)
    IN  i <= Len(cs) /\ cs[i] = "{"

JsonObjRegexTest(text) == OpensObject(Chars(text))

\* JSON.parse(text) does not throw
JsonParses(text) == JsonValid(text)

\* the object JSON.parse(text) returns, as the keys getGraphQLParams reads
KeysOf(o) ==
    Keyed(JsValue(JsonGet(o, QueryKey)), JsValue(JsonGet(o, VariablesKey)),
          JsValue(JsonGet(o, OperationNameKey)), JsValue(JsonGet(o, RawKey)))

JsonParseObject(text) == KeysOf(JsonParse(text))

FormParse(text) ==
    CASE text = "query=%7B+hello+%7D&raw=" ->
            Keyed(Str(QueryText), Undefined, Undefined, Str(""))
      [] OTHER -> EmptyObject

\* In the chunks of a request, the mark of the connection closing: the
\* chunks before it arrived, the end of the body never does.
Closed == 0 - 1

\* the loop refusing a body as soon as it reaches maxSize
RECURSIVE ReadChunksInclusive(_, _, _, _)
ReadChunksInclusive(chunks, i, size, maxSize) ==
    IF i > Len(chunks) THEN [over |-> FALSE, closed |-> FALSE, consumed |-> i - 1]
    ELSE IF chunks[i] = Closed THEN [over |-> FALSE, closed |-> TRUE, consumed |-> i - 1]
    ELSE IF size + chunks[i] >= maxSize
    THEN [over |-> TRUE, closed |-> FALSE, consumed |-> i]
    ELSE ReadChunksInclusive(chunks, i + 1, size + chunks[i], maxSize)

\* for await (const chunk of stream): the chunks are consumed one by one
\* until the cumulative size exceeds maxSize.  Returns the number of chunks
\* consumed, whether the limit was crossed, and whether the connection
\* closed before the end of the body.
RECURSIVE ReadChunks(_, _, _, _)
ReadChunks(chunks, i, size, maxSize) ==
    IF i > Len(chunks) THEN [over |-> FALSE, closed |-> FALSE, consumed |-> i - 1]
    ELSE IF chunks[i] = Closed THEN [over |-> FALSE, closed |-> TRUE, consumed |-> i - 1]
    ELSE IF size + chunks[i] > maxSize
    THEN [over |-> TRUE, closed |-> FALSE, consumed |-> i]
    ELSE ReadChunks(chunks, i + 1, size + chunks[i], maxSize)

Fail(e, n)   == [ok |-> FALSE, error |-> e, data |-> EmptyObject, isNull |-> FALSE,
                 text |-> "", consumed |-> n]
Text(s, n)   == [ok |-> TRUE, error |-> PlainError(""), data |-> EmptyObject,
                 isNull |-> FALSE, text |-> s, consumed |-> n]
Data(o, n)   == [ok |-> TRUE, error |-> PlainError(""), data |-> o, isNull |-> FALSE,
                 text |-> "", consumed |-> n]
NullData     == [ok |-> TRUE, error |-> PlainError(""), data |-> EmptyObject,
                 isNull |-> TRUE, text |-> "", consumed |-> 0]

\* in the place of the error of a rejection: the promise never settles
NeverSettles == [kind |-> "pending", status |-> NoStatus, message |-> "", headers |-> <<>>]

\* a piped stream that is destroyed with the request
ClosedStreamDestroyed(piped, n) == Fail(PlainError("aborted"), n)

\* The loop over a stream that the connection closed under.  The request
\* itself is destroyed with an error, which the loop throws.  A stream made
\* by req.pipe(...) is neither ended nor destroyed with the request (pipe
\* ends its destination on the 'end' of the source only), so the loop
\* waits for a chunk that never comes.
ClosedStream(piped, n) ==
    IF piped THEN Fail(NeverSettles, n) ELSE Fail(PlainError("aborted"), n)

\* decompressed reading the stream before it looks at the content encoding
DecompressedReadFirst(req, charset, maxSize) ==
    LET encoding == IF req.contentEncoding.t = "undefined" THEN ""
                    ELSE ToLowerCase(req.contentEncoding.s)
        r == ReadChunks(req.chunks, 1, 0, maxSize)
    IN  IF r.over
        THEN Fail(HttpError(413, "Invalid body: request entity too large.", <<>>),
                  r.consumed)
        ELSE IF req.contentEncoding.t # "undefined"
                /\ encoding \notin {"identity", "deflate", "gzip"}
        THEN Fail(HttpError(415, "Unsupported content-encoding.", <<>>), r.consumed)
        ELSE IF r.closed
        THEN ClosedStream(encoding \in {"deflate", "gzip"}, r.consumed)
        ELSE Text(req.text, r.consumed)

\* decompressed(req, charset, maxSize)
Decompressed(req, charset, maxSize) ==
    LET encoding == IF req.contentEncoding.t = "undefined" THEN ""
                    ELSE ToLowerCase(req.contentEncoding.s)
    IN  IF req.contentEncoding.t # "undefined"
           /\ encoding \notin {"identity", "deflate", "gzip"}
        THEN Fail(HttpError(415, "Unsupported content-encoding.", <<>>), 0)
        ELSE LET r == ReadChunks(req.chunks, 1, 0, maxSize)
             IN  IF r.over
                 THEN Fail(HttpError(413, "Invalid body: request entity too large.", <<>>),
                           r.consumed)
                 ELSE IF r.closed
                 THEN ClosedStream(encoding \in {"deflate", "gzip"}, r.consumed)
                 ELSE Text(req.text, r.consumed)

\* readBody(req, typeInfo)
ReadBody(req, typeInfo) ==
    LET charset == IF typeInfo.charset = "" THEN "utf-8" ELSE ToLowerCase(typeInfo.charset)
    IN  IF charset # "utf8" /\ charset # "utf-8" /\ charset # "utf16le"
        THEN Fail(HttpError(415, "Unsupported charset.", <<>>), 0)
        ELSE Decompressed(req, charset, MaxSize)

\* lines 41-65: the switch on the media type, once readBody has settled
\* with raw
ParseRawBody(req, raw) ==
    IF ~raw.ok THEN raw
    ELSE CASE req.contentType.type = "application/graphql" ->
                Data(Keyed(Str(raw.text), Undefined, Undefined, Undefined), raw.consumed)
           [] req.contentType.type = "application/json" ->
                IF JsonObjRegexTest(raw.text) /\ JsonParses(raw.text)
                THEN Data(JsonParseObject(raw.text), raw.consumed)
                ELSE Fail(HttpError(400, "POST body sent invalid JSON.", <<>>),
                          raw.consumed)
           [] req.contentType.type = "application/x-www-form-urlencoded" ->
                Data(FormParse(raw.text), raw.consumed)
           [] OTHER -> Data(EmptyObject, raw.consumed)

\* parseBody(req)
ParseBody(req) ==
    IF req.body.t = "null" THEN NullData
    ELSE IF req.body.t = "object" THEN Data(req.body.o, 0)
    ELSE IF req.contentType.t = "absent" THEN Data(EmptyObject, 0)
    ELSE IF req.contentType.t = "invalid" THEN Fail(TypeError("invalid media type"), 0)
    ELSE IF req.body.t = "string" /\ req.contentType.type = "application/graphql"
         THEN Data(Keyed(Str(req.body.s), Undefined, Undefined, Undefined), 0)
    ELSE IF req.body.t # "undefined" THEN Data(EmptyObject, 0)
    ELSE ParseRawBody(req, ReadBody(req, req.contentType))

---------------------------------------------------------------------------
(* getGraphQLParams (src/src/index.ts). *)

NoParams == [query |-> Undefined, variables |-> Undefined,
             operationName |-> Undefined, raw |-> FALSE]

\* getGraphQLParams preferring the value of the body to that of the query
\* string
ParamsFromBodyFirst(url, body) ==
    LET q0 == Coalesce(body.data.query, url.query)
        v0 == Coalesce(body.data.variables, url.variables)
        o0 == Coalesce(body.data.operationName, url.operationName)
        nullRead(u) == body.isNull /\ u.t = "null"
    IN  IF nullRead(url.query) THEN Fail(TypeError("Cannot read properties of null"), 0)
        ELSE IF nullRead(url.variables)
             THEN Fail(TypeError("Cannot read properties of null"), 0)
        ELSE IF TypeOf(v0) = "string" /\ ~JsonValid(v0.s)
             THEN Fail(HttpError(400, "Variables are invalid JSON.", <<>>), 0)
        ELSE IF nullRead(url.operationName) \/ nullRead(url.raw)
             THEN Fail(TypeError("Cannot read properties of null"), 0)
        ELSE [ok |-> TRUE, error |-> PlainError(""),
              value |-> [query |-> IF TypeOf(q0) # "string" THEN Undefined ELSE q0,
                         variables |-> IF TypeOf(v0) = "string" THEN JsonParse(v0.s)
                                       ELSE IF TypeOf(v0) # "object" THEN Undefined
                                       ELSE v0,
                         operationName |-> IF TypeOf(o0) # "string" THEN Undefined ELSE o0,
                         raw |-> url.raw.t # "null" \/ body.data.raw.t # "undefined"]]

\* getGraphQLParams keeping the parsed variables only when they are an
\* object
ParamsFromObjectVariables(url, body) ==
    LET q0 == Coalesce(url.query, body.data.query)
        v0 == Coalesce(url.variables, body.data.variables)
        o0 == Coalesce(url.operationName, body.data.operationName)
        nullRead(u) == body.isNull /\ u.t = "null"
    IN  IF nullRead(url.query) THEN Fail(TypeError("Cannot read properties of null"), 0)
        ELSE IF nullRead(url.variables)
             THEN Fail(TypeError("Cannot read properties of null"), 0)
        ELSE IF TypeOf(v0) = "string" /\ ~JsonValid(v0.s)
             THEN Fail(HttpError(400, "Variables are invalid JSON.", <<>>), 0)
        ELSE IF nullRead(url.operationName) \/ nullRead(url.raw)
             THEN Fail(TypeError("Cannot read properties of null"), 0)
        ELSE [ok |-> TRUE, error |-> PlainError(""),
              value |-> [query |-> IF TypeOf(q0) # "string" THEN Undefined ELSE q0,
                         variables |-> LET v1 == IF TypeOf(v0) = "string" THEN JsonParse(v0.s)
                                                 ELSE v0
                                       IN  IF TypeOf(v1) # "object" THEN Undefined ELSE v1,
                         operationName |-> IF TypeOf(o0) # "string" THEN Undefined ELSE o0,
                         raw |-> url.raw.t # "null" \/ body.data.raw.t # "undefined"]]

\* getGraphQLParams taking variables that are not JSON as absent
ParamsFromLenientVariables(url, body) ==
    LET q0 == Coalesce(url.query, body.data.query)
        v0 == Coalesce(url.variables, body.data.variables)
        o0 == Coalesce(url.operationName, body.data.operationName)
        nullRead(u) == body.isNull /\ u.t = "null"
    IN  IF nullRead(url.query) THEN Fail(TypeError("Cannot read properties of null"), 0)
        ELSE IF nullRead(url.variables)
             THEN Fail(TypeError("Cannot read properties of null"), 0)
        ELSE IF nullRead(url.operationName) \/ nullRead(url.raw)
             THEN Fail(TypeError("Cannot read properties of null"), 0)
        ELSE [ok |-> TRUE, error |-> PlainError(""),
              value |-> [query |-> IF TypeOf(q0) # "string" THEN Undefined ELSE q0,
                         variables |-> IF TypeOf(v0) = "string" /\ ~JsonValid(v0.s) THEN Undefined
                                       ELSE IF TypeOf(v0) = "string" THEN JsonParse(v0.s)
                                       ELSE IF TypeOf(v0) # "object" THEN Undefined
                                       ELSE v0,
                         operationName |-> IF TypeOf(o0) # "string" THEN Undefined ELSE o0,
                         raw |-> url.raw.t # "null" \/ body.data.raw.t # "undefined"]]

\* The part of getGraphQLParams after parseBody returned bodyData.  Reading
\* a key of a null bodyData is a TypeError.
ParamsFrom(url, body) ==
    LET q0 == Coalesce(url.query, body.data.query)
        v0 == Coalesce(url.variables, body.data.variables)
        o0 == Coalesce(url.operationName, body.data.operationName)
        nullRead(u) == body.isNull /\ u.t = "null"
    IN  IF nullRead(url.query) THEN Fail(TypeError("Cannot read properties of null"), 0)
        ELSE IF nullRead(url.variables)
             THEN Fail(TypeError("Cannot read properties of null"), 0)
        ELSE IF TypeOf(v0) = "string" /\ ~JsonValid(v0.s)
             THEN Fail(HttpError(400, "Variables are invalid JSON.", <<>>), 0)
        ELSE IF nullRead(url.operationName) \/ nullRead(url.raw)
             THEN Fail(TypeError("Cannot read properties of null"), 0)
        ELSE [ok |-> TRUE, error |-> PlainError(""),
              value |-> [query |-> IF TypeOf(q0) # "string" THEN Undefined ELSE q0,
                         variables |-> IF TypeOf(v0) = "string" THEN JsonParse(v0.s)
                                       ELSE IF TypeOf(v0) # "object" THEN Undefined
                                       ELSE v0,
                         operationName |-> IF TypeOf(o0) # "string" THEN Undefined ELSE o0,
                         raw |-> url.raw.t # "null" \/ body.data.raw.t # "undefined"]]

\* what getGraphQLParams settles with: the parameters, or the error thrown
ParamsOutcome(p) ==
    [ok |-> p.ok, error |-> p.error, value |-> IF p.ok THEN p.value ELSE NoParams]

\* getGraphQLParams once parseBody has settled with bodyData
ParamsOfBody(url, bodyData) ==
    IF ~bodyData.ok
    THEN [ok |-> FALSE, error |-> bodyData.error, value |-> NoParams]
    ELSE ParamsOutcome(ParamsFrom(url, bodyData))

GetGraphQLParams(req) == ParamsOfBody(req.url, ParseBody(req))

---------------------------------------------------------------------------
(* Options (src/src/interfaces.ts, resolveOptions in src/src/index.ts). *)

\* What the options argument holds or the options function returns.
\* schema: "valid" (validateSchema finds nothing), "invalid" (it reports an
\* error) or "missing".  graphiql: "undefined", "false", "true", "null", or
\* a props object: "object" (giving its own fetcher.subscriptionUrl), "url"
\* (giving its own fetcher.url and a defaultQuery) or "props" (giving a
\* defaultQuery and no fetcher).  pretty:
\* "undefined", "false" or "true".  extensions, formatErrorFn: whether the
\* hook is supplied.  No options of the model set a context, so that the
\* resolved context is the request.
NotAnObject ==
    [isObject |-> FALSE, schema |-> "missing", graphiql |-> "undefined",
     pretty |-> "undefined", extensions |-> FALSE, formatErrorFn |-> FALSE]

NoFinalOptions ==
    [defined |-> FALSE, schema |-> "missing", graphiql |-> [fetcher |-> [url |-> ""]],
     graphiqlOwner |-> "run",
     pretty |-> FALSE, extensions |-> FALSE, formatErrorFn |-> FALSE]

\* originalUrl.split('?')[0], of a url held as its pieces, each "?" being a
\* piece of its own
RECURSIVE BeforeQuery(_)
BeforeQuery(pieces) ==
    IF Len(pieces) = 0 \/ pieces[1] = "?" THEN ""
    ELSE pieces[1] \o BeforeQuery(Tail(pieces))

\* the default url made of the host header whatever proxy forwarded the request
DefaultFetcherUrlOfHost(req) ==
    req.protocol \o "://" \o req.host \o BeforeQuery(req.originalUrl)

\* defaultGraphiqlOptions.fetcher.url
DefaultFetcherUrl(req) ==
    req.protocol \o "://"
        \o (IF req.forwardedHost.t = "undefined" THEN req.host ELSE req.forwardedHost.s)
        \o BeforeQuery(req.originalUrl)

DefaultGraphiqlOptions(req) == [fetcher |-> [url |-> DefaultFetcherUrl(req)]]

UserSubscriptionUrl == "ws://example.com/subscriptions"
UserFetcherUrl == "https://api.example.com/graphql"
UserDefaultQuery == "{ me }"

\* an object without keys
NoProps == [k \in {} |-> ""]

\* the graphiql option when it is an object
GraphiqlProps(g) ==
    CASE g = "object" -> [fetcher |-> [subscriptionUrl |-> UserSubscriptionUrl]]
      [] g = "url"    -> [fetcher |-> [url |-> UserFetcherUrl],
                          defaultQuery |-> UserDefaultQuery]
      [] g = "props"  -> [defaultQuery |-> UserDefaultQuery]
      [] OTHER        -> NoProps

\* {...a, ...b}
Spread(a, b) ==
    [k \in DOMAIN a \cup DOMAIN b |-> IF k \in DOMAIN b THEN b[k] ELSE a[k]]

\* a resolution that fills the fetcher of the caller's object in place
GraphiqlOwnerInPlace(g) == IF g \in {"undefined", "false", "true"} THEN "run" ELSE "caller"

\* lines 252-281: who made the object left in mutableOptions.graphiql.  It
\* is defaultGraphiqlOptions or the object literal of line 271, both made by
\* this resolution ("run"), never the object of the caller ("caller").
GraphiqlOwner(g) == "run"

\* lines 262-281: mutableOptions.graphiql after the merge with the default
ResolveGraphiql(g, req) ==
    IF g \in {"undefined", "false", "true"}
    THEN DefaultGraphiqlOptions(req)
    ELSE Spread(GraphiqlProps(g),
                [fetcher |-> Spread(DefaultGraphiqlOptions(req).fetcher,
                                    IF "fetcher" \in DOMAIN GraphiqlProps(g)
                                    THEN GraphiqlProps(g).fetcher ELSE NoProps)])

\* resolveOptions(options, request): the usable options, or the TypeError
\* of a failed devAssertIsObject.
ResolveOptions(u, req) ==
    IF ~u.isObject
    THEN [ok |-> FALSE,
          error |-> TypeError("GraphQL middleware option function must return an options object or a promise which will be resolved to an options object."),
          value |-> NoFinalOptions]
    ELSE IF u.schema = "missing"
    THEN [ok |-> FALSE,
          error |-> TypeError("GraphQL middleware options must contain a schema."),
          value |-> NoFinalOptions]
    ELSE IF u.graphiql = "null"
    THEN [ok |-> FALSE,
          error |-> TypeError("GraphiQL options must be either a boolean or an object."),
          value |-> NoFinalOptions]
    ELSE [ok |-> TRUE, error |-> PlainError(""),
          value |-> [defined |-> TRUE,
                     schema |-> u.schema,
                     graphiql |-> ResolveGraphiql(u.graphiql, req),
                     graphiqlOwner |-> GraphiqlOwner(u.graphiql),
                     context |-> req,
                     pretty |-> (u.pretty = "true"),
                     extensions |-> u.extensions,
                     formatErrorFn |-> u.formatErrorFn]]

\* Boolean(userOptions.graphiql)
GraphiqlToggle(u) == u.graphiql \in {"true", "object", "url", "props"}

---------------------------------------------------------------------------
(* Content negotiation: request.accepts(['json', 'html']).  The Accept     *)
(* header is a sequence of media ranges with their q (in tenths); <<>> is  *)
(* a request without the header.                                           *)

MimeOf(t) == IF t = "json" THEN "application/json" ELSE "text/html"

\* how specific the match of a range with a media type is (exact, text/*,
\* */*, in falling order); 0 when the range does not match
Specificity(range, mime) ==
    IF range = mime THEN 6
    ELSE IF range = "*/*" THEN 1
    ELSE IF range = "text/*" /\ mime = "text/html" THEN 5
    ELSE 0

\* the priority negotiator gives a candidate: the q, specificity and
\* position of the most specific range of the header that matches it
Priority(accept, mime) ==
    LET matching == {i \in 1..Len(accept) : Specificity(accept[i].type, mime) > 0}
    IN  IF matching = {} THEN [q |-> 0, s |-> 0, o |-> 0]
        ELSE LET best == CHOOSE i \in matching :
                            \A j \in matching :
                               \/ Specificity(accept[i].type, mime) > Specificity(accept[j].type, mime)
                               \/ /\ Specificity(accept[i].type, mime) = Specificity(accept[j].type, mime)
                                  /\ accept[i].q > accept[j].q
                               \/ /\ Specificity(accept[i].type, mime) = Specificity(accept[j].type, mime)
                                  /\ accept[i].q = accept[j].q
                                  /\ i >= j
             IN  [q |-> accept[best].q, s |-> Specificity(accept[best].type, mime), o |-> best]

\* a sorts before b: higher q, then higher specificity, then earlier in the
\* header, then earlier among the candidates
Before(pa, ia, pb, ib) ==
    \/ pa.q > pb.q
    \/ pa.q = pb.q /\ pa.s > pb.s
    \/ pa.q = pb.q /\ pa.s = pb.s /\ pa.o < pb.o
    \/ pa.q = pb.q /\ pa.s = pb.s /\ pa.o = pb.o /\ ia <= ib

\* request.accepts(types): the preferred type, "" for false
Accepts(accept, types) ==
    IF accept = <<>> THEN types[1]
    ELSE LET ok == {i \in 1..Len(types) : Priority(accept, MimeOf(types[i])).q > 0}
         IN  IF ok = {} THEN ""
             ELSE types[CHOOSE i \in ok :
                          \A j \in ok : Before(Priority(accept, MimeOf(types[i])), i,
                                               Priority(accept, MimeOf(types[j])), j)]

\* canDisplayGraphiQL without its test of params.raw
CanDisplayGraphiQLIgnoringRaw(req, p) ==
    Accepts(req.accept, <<"json", "html">>) = "html"

\* canDisplayGraphiQL(request, params)
CanDisplayGraphiQL(req, p) ==
    p.raw = FALSE /\ Accepts(req.accept, <<"json", "html">>) = "html"

---------------------------------------------------------------------------
(* The engine and the user's hooks: what a call may return or throw. *)

\* A document: its operations in order, each with a name ("" when
\* anonymous) and a kind.
Operation(name, kind) == [name |-> name, operation |-> kind]
NoDocument == <<>>

Documents ==
    { <<Operation("", "query")>>,
      <<Operation("", "mutation")>>,
      <<Operation("A", "query"), Operation("B", "subscription")>> }

\* getOperationAST called without the operation name
GetOperationASTUnnamed(doc, operationName) ==
    IF Len(doc) = 1 THEN 1 ELSE 0

\* getOperationAST(documentAST, operationName): the index of the operation,
\* 0 for null.
GetOperationAST(doc, operationName) ==
    IF operationName.t \in {"undefined", "null"}
    THEN IF Len(doc) = 1 THEN 1 ELSE 0
    ELSE IF \E i \in 1..Len(doc) : doc[i].name = operationName.s
         THEN CHOOSE i \in 1..Len(doc) : doc[i].name = operationName.s
         ELSE 0

SyntaxError     == GraphQLError("Syntax Error: Expected Name, found <EOF>.", NoStatus, <<>>)
ValidationError == GraphQLError("Cannot query field.", NoStatus, <<>>)
SchemaError     == GraphQLError("Query root type must be provided.", NoStatus, <<>>)
FieldError      == GraphQLError("Resolver failed.", NoStatus, <<>>)

\* What a hook may throw (or reject with).
Throwables ==
    { One(HttpError(403, "Forbidden", << <<"Retry-After", "1">> >>)),
      One(PlainError("boom")),
      One(NonError("a string")),
      One(GraphQLError("wrapped", 401, << <<"Retry-After", "2">> >>)),
      Many(<<PlainError("boom"), HttpError(403, "Forbidden", << <<"Retry-After", "1">> >>)>>),
      Many(<<>>) }

\* What parseFn, validateFn, executeFn and the extensions hook may throw.
HookThrowables ==
    { One(HttpError(403, "Forbidden", << <<"Retry-After", "1">> >>)),
      One(PlainError("boom")),
      Many(<<>>) }

\* An execution result: its own keys in insertion order, data ("world" for
\* {hello: "world"}, "null", or "" when the key is missing), its errors and
\* its extensions ("" when missing).
Result(keys, data, errors, extensions) ==
    [keys |-> keys, data |-> data, errors |-> errors, extensions |-> extensions]
EmptyResult == Result(<<>>, "", <<>>, "")

ExecutionResults ==
    { Result(<<"data">>, "world", <<>>, ""),
      Result(<<"errors", "data">>, "world", <<FieldError>>, ""),
      Result(<<"errors", "data">>, "null", <<FieldError>>, ""),
      Result(<<"errors">>, "", <<FieldError>>, "") }

---------------------------------------------------------------------------
(* The response object. *)

\* response.statusCode of an object that has no such property
StatusUndefined == 0

HeaderNames == {"Allow", "Content-Type", "Content-Length", "Retry-After"}

\* kind "express": an express Response (statusCode 200, a json method);
\* kind "bare": an object exposing only setHeader and end.
NewResponse(kind) ==
    [kind |-> kind,
     statusCode |-> IF kind = "express" THEN 200 ELSE StatusUndefined,
     headers |-> [h \in HeaderNames |-> ""],
     writes |-> <<>>]

\* no run came before
NoPrevious ==
    [ran |-> FALSE, response |-> NewResponse("bare"), promise |-> "pending",
     outcomes |-> <<>>]

\* no second run
NoOther == [pc |-> "none"]

\* response.statusCode = code
SetStatus(resp, code) == [resp EXCEPT !.statusCode = code]

\* response.setHeader(key, value)
SetHeader(resp, key, value) == [resp EXCEPT !.headers[key] = value]

\* String(n) for the lengths the model meets
RECURSIVE Digits(_)
Digits(n) ==
    LET d == n % 10
        c == CASE d = 0 -> "0" [] d = 1 -> "1" [] d = 2 -> "2" [] d = 3 -> "3"
               [] d = 4 -> "4" [] d = 5 -> "5" [] d = 6 -> "6" [] d = 7 -> "7"
               [] d = 8 -> "8" [] d = 9 -> "9"
    IN  IF n < 10 THEN c ELSE Digits(n \div 10) \o c

\* sendResponse(response, type, data)
SendResponse(resp, type, data) ==
    LET r1 == SetHeader(resp, "Content-Type", type \o "; charset=utf-8")
        r2 == SetHeader(r1, "Content-Length", Digits(Len(data)))
    IN  [r2 EXCEPT !.writes = Append(@, [via |-> "end", type |-> type, body |-> data])]

\* response.json(body) of express: the compact serialization, sent as
\* application/json in utf-8 with its length.
ResponseJson(resp, data) ==
    LET r1 == SetHeader(resp, "Content-Type", "application/json; charset=utf-8")
        r2 == SetHeader(r1, "Content-Length", Digits(Len(data)))
    IN  [r2 EXCEPT !.writes = Append(@, [via |-> "json", type |-> "application/json",
                                          body |-> data])]

---------------------------------------------------------------------------
(* renderGraphiQL (src/unnamed/part_002). *)

\* JSON.stringify of a string without characters to escape
Quoted(s) == "\"" \o s \o "\""

\* A text that closes the script element of the page.
ScriptEnd == "</script>"

\* The characters of a text the page embeds.  The texts of the model that
\* hold a '/' in a value safeSerialize serializes, or a '</script>', are
\* listed with their pieces: each '/' and the '<' before it are pieces of
\* their own.  Any other text is one piece (none holds a '"' or a '\', and
\* the '/' of a url is only met by JSON.stringify, which leaves it).
PiecesOf(text) ==
    CASE text = ScriptEnd -> <<"<", "/", "script>">>
      [] text = "http://</script>/graphql" ->
            <<"http:", "/", "/", "<", "/", "script>", "/", "graphql">>
      [] text = "http://example.com/graphql/</script>" ->
            <<"http:", "/", "/", "example.com", "/", "graphql", "/", "<", "/", "script>">>
      [] text = "http://</script>/graphql/</script>" ->
            <<"http:", "/", "/", "<", "/", "script>", "/", "graphql", "/",
              "<", "/", "script>">>
      [] OTHER -> <<text>>

\* do the pieces hold '</script>'?
HoldsScriptEnd(ps) ==
    \E i \in 1..(Len(ps) - 2) : ps[i] = "<" /\ ps[i + 1] = "/" /\ ps[i + 2] = "script>"

\* is every '/' of the pieces preceded by a backslash?
SlashesEscaped(ps) ==
    \A i \in 1..Len(ps) : ps[i] = "/" => (i > 1 /\ ps[i - 1] = "\\")

\* the characters of a string inside the quotes of JSON.stringify: '"' and
\* '\' are preceded by a backslash
RECURSIVE EscapeString(_)
EscapeString(ps) ==
    IF Len(ps) = 0 THEN <<>>
    ELSE (IF ps[1] \in {"\"", "\\"} THEN <<"\\", ps[1]>> ELSE <<ps[1]>>)
             \o EscapeString(Tail(ps))

\* JSON.stringify(s) of a string
JsonStringifyString(ps) == <<"\"">> \o EscapeString(ps) \o <<"\"">>

\* .replace(/\//g, '\\/')
RECURSIVE EscapeSlashes(_)
EscapeSlashes(ps) ==
    IF Len(ps) = 0 THEN <<>>
    ELSE (IF ps[1] = "/" THEN <<"\\", "/">> ELSE <<ps[1]>>) \o EscapeSlashes(Tail(ps))

\* JSON.stringify(data) of a parameter
StringifyParam(v) ==
    IF IsJsonValue(v) THEN JsonStringifyChars(v)
    ELSE IF v.t = "string" THEN JsonStringifyString(PiecesOf(v.s))
    ELSE PiecesOf(v.s)

\* a serialization that leaves the slashes
SafeSerializeUnescaped(v) ==
    IF v.t = "undefined" THEN <<"undefined">> ELSE StringifyParam(v)

\* safeSerialize(data)
SafeSerialize(v) ==
    IF v.t = "undefined" THEN <<"undefined">> ELSE EscapeSlashes(StringifyParam(v))

\* props.<name> = safeSerialize(value), then JSON.stringify(property) in
\* propsString
PropLiteral(v) == JsonStringifyString(SafeSerialize(v))

\* lines 31-43: propsString, the own properties of props but fetcher in the
\* order they were assigned: those of the graphiql option, then query,
\* variables and operationName
PropsString(p, graphiql) ==
    (IF "defaultQuery" \in DOMAIN graphiql
     THEN <<"defaultQuery: ">> \o JsonStringifyString(PiecesOf(graphiql.defaultQuery))
              \o <<", ">>
     ELSE <<>>)
    \o <<"query: ">> \o PropLiteral(p.query)
    \o <<", variables: ">> \o PropLiteral(p.variables)
    \o <<", operationName: ">> \o PropLiteral(p.operationName)
    \o <<", ">>

\* line 111: JSON.stringify(props.fetcher)
FetcherLiteral(fetcher) ==
    <<"{\"url\":">> \o JsonStringifyString(PiecesOf(fetcher.url))
    \o (IF "subscriptionUrl" \in DOMAIN fetcher
        THEN <<",\"subscriptionUrl\":">>
                 \o JsonStringifyString(PiecesOf(fetcher.subscriptionUrl))
        ELSE <<>>)
    \o <<"}">>

\* the page, as the pieces of the template and those of the values
PagePieces(p, graphiql) ==
    <<"<!DOCTYPE html>">>
    \o (IF "subscriptionUrl" \in DOMAIN graphiql.fetcher
        THEN <<"<script>// graphql-ws/umd/graphql-ws.js</script>">>
        ELSE <<>>)
    \o <<"<script>ReactDOM.render(React.createElement(GraphiQL, {fetcher: GraphiQL.createFetcher(">>
    \o FetcherLiteral(graphiql.fetcher)
    \o <<"), ">>
    \o PropsString(p, graphiql)
    \o <<"}), document.getElementById('graphiql'));</script>">>

RenderGraphiQL(p, graphiql) == TextOf(PagePieces(p, graphiql))

\* lines 31-33: props.query, props.variables and props.operationName are
\* assigned on the object the resolved options hold.  What the object of
\* the caller holds afterwards: the same, unless that object is the
\* caller's.
AssignProps(caller, fo, p) ==
    IF fo.graphiqlOwner = "caller"
    THEN Spread(caller, [query |-> TextOf(SafeSerialize(p.query)),
                         variables |-> TextOf(SafeSerialize(p.variables)),
                         operationName |-> TextOf(SafeSerialize(p.operationName))])
    ELSE caller

\* respondWithGraphiQL(response, params, options)
RespondWithGraphiQL(resp, p, graphiql) ==
    SendResponse(resp, "text/html", RenderGraphiQL(p, graphiql))

---------------------------------------------------------------------------
(* JSON.stringify(formattedResult) and JSON.stringify(formattedResult,     *)
(* null, 2) on the results of the model.                                   *)

RECURSIVE Join(_, _)
Join(strings, separator) ==
    IF Len(strings) = 0 THEN ""
    ELSE IF Len(strings) = 1 THEN strings[1]
    ELSE strings[1] \o separator \o Join(Tail(strings), separator)

DataJson(data, pretty) ==
    IF data = "null" THEN "null"
    ELSE IF pretty THEN "{\n    \"hello\": " \o Quoted(data) \o "\n  }"
    ELSE "{\"hello\":" \o Quoted(data) \o "}"

ExtensionsJson(extensions, pretty) ==
    IF pretty THEN "{\n    \"runTime\": " \o extensions \o "\n  }"
    ELSE "{\"runTime\":" \o extensions \o "}"

ErrorJson(e, pretty) ==
    IF pretty THEN "{\n      \"message\": " \o Quoted(e.message) \o "\n    }"
    ELSE "{\"message\":" \o Quoted(e.message) \o "}"

ErrorsJson(errors, pretty) ==
    IF Len(errors) = 0 THEN "[]"
    ELSE IF pretty
    THEN "[\n    " \o Join([i \in 1..Len(errors) |-> ErrorJson(errors[i], TRUE)], ",\n    ")
             \o "\n  ]"
    ELSE "[" \o Join([i \in 1..Len(errors) |-> ErrorJson(errors[i], FALSE)], ",") \o "]"

\* formatted: the result with its errors formatted; a key of the result
\* always has a value, and the errors key the spread adds with the value
\* undefined is left out by JSON.stringify.
Stringify(formatted, pretty) ==
    LET value(k) == CASE k = "data"       -> DataJson(formatted.data, pretty)
                      [] k = "errors"     -> ErrorsJson(formatted.errors, pretty)
                      [] k = "extensions" -> ExtensionsJson(formatted.extensions, pretty)
        entries == [i \in 1..Len(formatted.keys) |->
                       Quoted(formatted.keys[i]) \o (IF pretty THEN ": " ELSE ":")
                           \o value(formatted.keys[i])]
    IN  IF Len(entries) = 0 THEN "{}"
        ELSE IF pretty THEN "{\n  " \o Join(entries, ",\n  ") \o "\n}"
        ELSE "{" \o Join(entries, ",") \o "}"

\* obj[key] = value on an object whose keys keep their insertion order
WithKey(keys, k) ==
    IF \E i \in 1..Len(keys) : keys[i] = k THEN keys ELSE Append(keys, k)

\* error.toJSON()
ToJSON(e) == [message |-> e.message]

\* the user's formatErrorFn(error), when it returns
FormatErrorFn(e) == [message |-> "formatted"]

---------------------------------------------------------------------------
(* The error mapper: the catch clause of graphqlMiddleware. *)

RECURSIVE SetHeaders(_, _)
SetHeaders(resp, headers) ==
    IF Len(headers) = 0 THEN resp
    ELSE SetHeaders(SetHeader(resp, headers[1][1], headers[1][2]), Tail(headers))

\* a mapper for which every failure is a 500
MappedStatusFatal(e) == 500

\* a mapper that looks for a status on transport errors only
MappedStatusWithoutCause(e) == IF e.kind = "http" THEN e.status ELSE 500

\* the status the mapper gives one caught element
MappedStatus(e) ==
    IF e.kind = "graphql" THEN (IF e.status = NoStatus THEN 500 ELSE e.status)
    ELSE IF e.kind = "http" THEN e.status
    ELSE 500

\* the GraphQLError the mapper returns for one caught element
MappedError(e) ==
    IF e.kind = "graphql" THEN e
    ELSE IF e.kind = "http" THEN GraphQLError(e.message, e.status, e.headers)
    ELSE GraphQLError(e.message, 500, <<>>)

\* the mapper assigning its status whatever the response already has
EnsureErrorCodeAlways(resp, status) == SetStatus(resp, status)

\* the mapper assigning its status only to a response that has none
EnsureErrorCodeWhenUnset(resp, status) ==
    IF resp.statusCode = StatusUndefined THEN SetStatus(resp, status) ELSE resp

\* if (response.statusCode === undefined || response.statusCode < 400)
EnsureErrorCode(resp, status) ==
    IF resp.statusCode = StatusUndefined \/ resp.statusCode < 400
    THEN SetStatus(resp, status)
    ELSE resp

\* one iteration of errors.map: the response after the element is mapped
MapOne(resp, e) ==
    EnsureErrorCode(IF e.kind = "http" THEN SetHeaders(resp, e.headers) ELSE resp,
                    MappedStatus(e))

RECURSIVE MapAll(_, _)
MapAll(resp, errors) ==
    IF Len(errors) = 0 THEN resp ELSE MapAll(MapOne(resp, errors[1]), Tail(errors))

---------------------------------------------------------------------------
(* The requests, options and responses a run starts from. *)

Methods == {"GET", "POST", "PUT"}

Range(type, q) == [type |-> type, q |-> q]

\* no header; json preferred by q; html preferred, json accepted by */*
AcceptHeaders ==
    { <<>>,
      <<Range("application/json", 10), Range("text/html", 5)>>,
      <<Range("text/html", 10), Range("*/*", 8)>> }

\* the query string: URLSearchParams.get gives a string, or null for a
\* key the query string lacks
Url(q, v, o, r) == [query |-> q, variables |-> v, operationName |-> o, raw |-> r]

Urls ==
    { Url(Null, Null, Null, Null),
      Url(Str(QueryText), Null, Null, Null),
      Url(Str(QueryText), Null, Null, Str("")),
      Url(Str(QueryText), Str("{\"a\":1}"), Str("B"), Null),
      Url(Str(QueryText), Str("{bad"), Null, Null) }

\* the body: what an earlier middleware left in req.body, the headers that
\* describe the stream, the sizes of the chunks the (decompressed) stream
\* yields and the text they decode to
Body(body, contentType, contentEncoding, chunks, text) ==
    [body |-> body, contentType |-> contentType, contentEncoding |-> contentEncoding,
     chunks |-> chunks, text |-> text]

Bodies ==
    { Body(BodyUnparsed, NoContentType, Undefined, <<>>, ""),
      Body(BodyObject(Keyed(Str(MutationText), Undefined, Undefined, Undefined)),
           NoContentType, Undefined, <<>>, ""),
      Body(BodyObject(Keyed(Num("42"), Undefined, Undefined, Undefined)),
           ContentType("application/json", ""), Undefined, <<>>, ""),
      Body(BodyUnparsed, ContentType("application/json", ""), Undefined,
           <<20, 19>>, " {\"query\":\"mutation { m }\",\"raw\":false}"),
      Body(BodyUnparsed, ContentType("application/json", "UTF-8"), Str("br"),
           <<21>>, "{\"query\":\"{ hello }\"}"),
      \* streams at and over the size limit
      Body(BodyUnparsed, ContentType("text/plain", ""), Undefined, <<MaxSize>>, "plain"),
      Body(BodyUnparsed, ContentType("text/plain", ""), Str("GZIP"),
           <<MaxSize - 1, 1>>, "plain"),
      Body(BodyUnparsed, ContentType("text/plain", ""), Undefined, <<MaxSize, 1>>, "plain"),
      Body(BodyUnparsed, ContentType("text/plain", ""), Str("deflate"),
           <<MaxSize - 1, 2, 5>>, "plain"),
      \* content encodings and charsets
      Body(BodyUnparsed, ContentType("text/plain", ""), Str("Br"), <<5>>, "plain"),
      Body(BodyUnparsed, ContentType("text/plain", "utf16le"), Undefined, <<10>>, "plain"),
      Body(BodyUnparsed, ContentType("text/plain", "UTF-16LE"), Undefined, <<10>>, "plain"),
      Body(BodyUnparsed, ContentType("text/plain", "latin1"), Str("br"), <<5>>, "plain"),
      \* JSON streams that are not an object, or not JSON
      Body(BodyUnparsed, ContentType("application/json", ""), Undefined, <<3>>, "[1]"),
      Body(BodyUnparsed, ContentType("application/json", "utf-8"), Undefined, <<4>>, "{bad"),
      \* bodies an earlier middleware parsed
      Body(BodyNull, ContentType("application/json", ""), Undefined, <<>>, ""),
      Body(BodyBuffer, BadContentType, Undefined, <<>>, ""),
      Body(BodyBuffer, ContentType("application/json", ""), Undefined, <<>>, ""),
      Body(BodyNumber, ContentType("application/graphql", ""), Undefined, <<>>, ""),
      Body(BodyString(QueryText), ContentType("application/graphql", ""), Undefined,
           <<>>, ""),
      Body(BodyString(QueryText), ContentType("application/json", ""), Undefined, <<>>, ""),
      Body(BodyString(QueryText), NoContentType, Undefined, <<>>, ""),
      Body(BodyObject(Keyed(Str(MutationText), Obj("{b:2}"), Str("B"), JsonBoolean(FALSE))),
           BadContentType, Undefined, <<>>, "") }

NoBody == Body(BodyUnparsed, NoContentType, Undefined, <<>>, "")

\* a query string with any body, or any query string without a body
UrlsAndBodies ==
    { <<u, NoBody>> : u \in Urls }
    \cup { <<Url(Null, Null, Null, Null), b>> : b \in Bodies }
    \cup { <<Url(Str(QueryText), Null, Null, Null),
             Body(BodyObject(Keyed(Str(MutationText), Undefined, Undefined, Str("1"))),
                  NoContentType, Undefined, <<>>, "")>>,
           \* every key in the query string and in the body
           <<Url(Str(""), Str("{\"a\":1}"), Str("A"), Null),
             Body(BodyObject(Keyed(Str(MutationText), Obj("{b:2}"), Str("B"),
                                   JsonBoolean(FALSE))),
                  BadContentType, Undefined, <<>>, "")>>,
           \* invalid variables, in a request whose body cannot be read
           <<Url(Str(QueryText), Str("{bad"), Null, Null),
             Body(BodyUnparsed, ContentType("application/json", "UTF-8"), Str("br"),
                  <<21>>, "{\"query\":\"{ hello }\"}")>>,
           \* invalid variables in the body
           <<Url(Str(QueryText), Null, Null, Null),
             Body(BodyObject(Keyed(Undefined, Str("{bad"), Undefined, Undefined)),
                  NoContentType, Undefined, <<>>, "")>>,
           \* a null body behind a query string with a query
           <<Url(Str(QueryText), Str("{\"a\":1}"), Str("B"), Str("")),
             Body(BodyNull, NoContentType, Undefined, <<>>, "")>> }

\* request.originalUrl: the path the handler is mounted at, then the query
\* string, named here by the keys it holds
OriginalUrl(url) ==
    IF url = Url(Null, Null, Null, Null) THEN <<"/graphql">>
    ELSE <<"/graphql", "?",
           Join(SelectSeq(<<"query", "variables", "operationName", "raw">>,
                          LAMBDA k : url[k] # Null), "&")>>

Requests ==
    { [method |-> m, accept |-> a, url |-> ub[1],
       body |-> ub[2].body, contentType |-> ub[2].contentType,
       contentEncoding |-> ub[2].contentEncoding, chunks |-> ub[2].chunks,
       text |-> ub[2].text,
       protocol |-> "http", host |-> "example.com", forwardedHost |-> Undefined,
       originalUrl |-> OriginalUrl(ub[1])] :
      m \in Methods, a \in AcceptHeaders, ub \in UrlsAndBodies }

UserOptions(schema, graphiql, pretty, extensions, formatErrorFn) ==
    [isObject |-> TRUE, schema |-> schema, graphiql |-> graphiql, pretty |-> pretty,
     extensions |-> extensions, formatErrorFn |-> formatErrorFn]

\* the options objects given to graphqlHTTP as a value
OptionValues ==
    { UserOptions("valid", g, "undefined", FALSE, FALSE) : g \in {"false", "true"} }
    \cup { UserOptions("valid", "false", p, x, f) :
              p \in {"undefined", "true"}, x \in BOOLEAN, f \in BOOLEAN }
    \cup { UserOptions("invalid", "true", "false", FALSE, FALSE),
           UserOptions("missing", "object", "true", FALSE, TRUE),
           NotAnObject }

\* what an options function returns
FunctionReturns ==
    { UserOptions("valid", "undefined", "undefined", FALSE, FALSE),
      UserOptions("valid", "object", "true", TRUE, TRUE),
      UserOptions("invalid", "false", "undefined", FALSE, TRUE),
      UserOptions("missing", "true", "undefined", FALSE, FALSE),
      NotAnObject }

OptionsArguments ==
    { [form |-> "value", value |-> u] : u \in OptionValues }
    \cup { [form |-> "function", value |-> NotAnObject] }

ResponseKinds == {"express", "bare"}

\* the longest list of errors validateFn returns
MaxErrors == 2

ValidationResults ==
    { [i \in 1..n |-> ValidationError] : n \in 0..MaxErrors }

\* what the extensions hook returns: undefined ("") or a value
ExtensionsReturns == {"", "1"}

\* what a hook that reports on its argument returns: a number whose digits
\* tell the method of the context, whether the result has data, whether
\* there are variables and an operation name, and the number of operations
\* of the document
ReportingHook(info) ==
    Digits((IF info.context.method = "GET" THEN 10000 ELSE 20000)
           + (IF info.result.data = "world" THEN 1000 ELSE 0)
           + (IF info.variables.t # "undefined" THEN 100 ELSE 0)
           + (IF info.operationName.t # "undefined" THEN 10 ELSE 0)
           + Len(info.document))

Init ==
    /\ request \in Requests
    /\ options \in OptionsArguments
    /\ response \in {NewResponse(k) : k \in ResponseKinds}
    /\ pc = "start"
    /\ userOptions = NotAnObject
    /\ firstUserOptions = NotAnObject
    /\ previous = NoPrevious
    /\ other = NoOther
    /\ callerGraphiql = NoProps
    /\ finalOptions = NoFinalOptions
    /\ params = NoParams
    /\ showGraphiQL = FALSE
    /\ documentAST = NoDocument
    /\ result = EmptyResult
    /\ thrown = Nothing
    /\ calls = <<>>
    /\ promise = "pending"

---------------------------------------------------------------------------
(* The run of graphqlMiddleware. *)

\* a throw that is handed to the extensions hook of resolved options
ThrowToExtensions(t) ==
    thrown' = t /\ pc' = IF finalOptions.defined THEN "extensions" ELSE "catch"

\* throw t, inside the try block
Throw(t) == thrown' = t /\ pc' = "catch"

\* a resolution that keeps the options an earlier resolution gave
ResolveOnce(u, next) ==
    LET r == ResolveOptions(u, request)
    IN  /\ userOptions' = u
        /\ finalOptions' = IF finalOptions.defined \/ ~r.ok THEN finalOptions ELSE r.value
        /\ thrown' = IF r.ok THEN thrown ELSE One(r.error)
        /\ pc' = IF r.ok THEN next ELSE "catch"

\* userOptions = u; finalOptions = resolveOptions(userOptions, request)
Resolve(u, next) ==
    LET r == ResolveOptions(u, request)
    IN  /\ userOptions' = u
        /\ finalOptions' = IF r.ok THEN r.value ELSE finalOptions
        /\ thrown' = IF r.ok THEN thrown ELSE One(r.error)
        /\ pc' = IF r.ok THEN next ELSE "catch"

\* lines 51-53: the first resolution of the options
ResolveOptionsFirst ==
    /\ pc = "start"
    /\ \/ /\ options.form = "value"
          /\ calls' = calls
          /\ Resolve(options.value, "params")
       \/ /\ options.form = "function"
          /\ calls' = Append(calls, "options(request, response)")
          /\ \E u \in FunctionReturns : Resolve(u, "params")
       \/ /\ options.form = "function"
          /\ calls' = Append(calls, "options(request, response)")
          /\ \E t \in Throwables : Throw(t)
          /\ UNCHANGED <<userOptions, finalOptions>>
    /\ firstUserOptions' = userOptions'
    /\ UNCHANGED <<request, options, previous, other, callerGraphiql,
                   response, params, showGraphiQL, documentAST,
                   result, promise>>

\* an await that goes on to the second resolution when the extraction failed
AwaitParamsGoingOn(r) ==
    /\ params' = IF r.ok THEN r.value ELSE params
    /\ pc' = IF ~r.ok /\ r.error = NeverSettles THEN "awaiting" ELSE "options"
    /\ thrown' = IF r.ok \/ r.error = NeverSettles THEN thrown ELSE One(r.error)

\* the await of line 54: params is assigned, or the rejection is thrown;
\* the run stays at the await of a promise that never settles
AwaitParams(r) ==
    IF r.ok
    THEN params' = r.value /\ pc' = "options" /\ thrown' = thrown
    ELSE IF r.error = NeverSettles
    THEN params' = params /\ pc' = "awaiting" /\ thrown' = thrown
    ELSE params' = params /\ Throw(One(r.error))

\* line 54: params = await getGraphQLParams(request)
GetParams ==
    /\ pc = "params"
    /\ calls' = Append(calls, "getGraphQLParams")
    /\ AwaitParams(GetGraphQLParams(request))
    /\ UNCHANGED <<request, options, previous, other, callerGraphiql,
                   firstUserOptions, response, userOptions,
                   finalOptions, showGraphiQL, documentAST, result, promise>>

\* lines 55-57: the second resolution of the options
ResolveOptionsSecond ==
    /\ pc = "options"
    /\ \/ /\ options.form = "value"
          /\ calls' = calls
          /\ Resolve(userOptions, "check")
       \/ /\ options.form = "function"
          /\ calls' = Append(calls, "options(request, response, params)")
          /\ \E u \in FunctionReturns : Resolve(u, "check")
       \/ /\ options.form = "function"
          /\ calls' = Append(calls, "options(request, response, params)")
          /\ \E t \in Throwables : Throw(t)
          /\ UNCHANGED <<userOptions, finalOptions>>
    /\ UNCHANGED <<request, options, previous, other, callerGraphiql,
                   firstUserOptions, response, params, showGraphiQL,
                   documentAST, result, promise>>

\* the query check made before the interactive page is offered
CheckOutcomeQueryFirst(method, show, query) ==
    IF method # "GET" /\ method # "POST" THEN "405"
    ELSE IF query.t = "undefined" THEN "400"
    ELSE IF show THEN "page"
    ELSE "continue"

\* the checks without the query check of lines 75-78: a request without a
\* query goes on to the schema stage
CheckOutcomeNoQueryCheck(method, show, query) ==
    IF method # "GET" /\ method # "POST" THEN "405"
    ELSE IF show THEN "page"
    ELSE "continue"

\* the checks without the page of lines 70-73: the page is left to the
\* operation gate
CheckOutcomeNoPage(method, show, query) ==
    IF method # "GET" /\ method # "POST" THEN "405"
    ELSE IF query.t = "undefined" THEN "400"
    ELSE "continue"

\* lines 63-78: what the checks after the negotiation decide, in the
\* order of the code: "405", "page", "400" or "continue"
CheckOutcome(method, show, query) ==
    IF method # "GET" /\ method # "POST" THEN "405"
    ELSE IF show THEN "page"
    ELSE IF query.t = "undefined" THEN "400"
    ELSE "continue"

\* lines 58-78: showGraphiQL, the method check, the interactive page, the
\* query check
CheckRequest ==
    /\ pc = "check"
    /\ showGraphiQL' = (CanDisplayGraphiQL(request, params) /\ GraphiqlToggle(userOptions))
    /\ LET outcome == CheckOutcome(request.method, showGraphiQL', params.query)
       IN  CASE outcome = "405" ->
                  /\ Throw(One(HttpError(405, "GraphQL only supports GET and POST requests.",
                                         << <<"Allow", "GET, POST">> >>)))
                  /\ UNCHANGED <<response, promise>>
             [] outcome = "page" ->
                  /\ response' = RespondWithGraphiQL(response, params, finalOptions.graphiql)
                  /\ pc' = "done"
                  /\ promise' = "resolved"
                  /\ thrown' = thrown
             [] outcome = "400" ->
                  /\ Throw(One(HttpError(400, "Must provide query string.", <<>>)))
                  /\ UNCHANGED <<response, promise>>
             [] outcome = "continue" ->
                  /\ pc' = "schema"
                  /\ UNCHANGED <<response, promise, thrown>>
    /\ callerGraphiql' = IF pc' = "done"
                         THEN AssignProps(callerGraphiql, finalOptions, params)
                         ELSE callerGraphiql
    /\ calls' = Append(calls, "canDisplayGraphiQL")
    /\ UNCHANGED <<request, options, previous, other,
                   firstUserOptions, userOptions, finalOptions, params,
                   documentAST, result>>

\* the status of the parse and validate stages, copied to the schema stage
InvalidSchemaStatusAs400(resp) == SetStatus(resp, 400)

\* line 84: response.statusCode = 500
InvalidSchemaStatus(resp) == SetStatus(resp, 500)

\* lines 80-86: validateSchema(finalOptions.schema)
ValidateSchema ==
    /\ pc = "schema"
    /\ calls' = Append(calls, "validateSchema")
    /\ IF finalOptions.schema = "invalid"
       THEN /\ response' = InvalidSchemaStatus(response)
            /\ Throw(Many(<<SchemaError>>))
       ELSE /\ pc' = "parse"
            /\ UNCHANGED <<response, thrown>>
    /\ UNCHANGED <<request, options, previous, other, callerGraphiql,
                   firstUserOptions, userOptions, finalOptions, params,
                   showGraphiQL, documentAST, result, promise>>

\* lines 88-98: finalOptions.parseFn(new Source(query, 'GraphQL request'))
Parse ==
    /\ pc = "parse"
    /\ calls' = Append(calls, "parseFn")
    /\ \/ /\ \E doc \in Documents : documentAST' = doc
          /\ pc' = "validate"
          /\ UNCHANGED <<response, thrown>>
       \/ /\ \E t \in HookThrowables \cup {One(SyntaxError)} : Throw(t)
          /\ response' = SetStatus(response, 400)
          /\ UNCHANGED documentAST
    /\ UNCHANGED <<request, options, previous, other, callerGraphiql,
                   firstUserOptions, userOptions, finalOptions, params,
                   showGraphiQL, result, promise>>

\* lines 100-110: finalOptions.validateFn(schema, documentAST, rules)
Validate ==
    /\ pc = "validate"
    /\ calls' = Append(calls, "validateFn")
    /\ \/ \E validationErrors \in ValidationResults :
             IF Len(validationErrors) > 0
             THEN /\ response' = SetStatus(response, 400)
                  /\ Throw(Many(validationErrors))
             ELSE /\ pc' = "gate"
                  /\ UNCHANGED <<response, thrown>>
       \/ /\ \E t \in HookThrowables : Throw(t)
          /\ UNCHANGED response
    /\ UNCHANGED <<request, options, previous, other, callerGraphiql,
                   firstUserOptions, userOptions, finalOptions, params,
                   showGraphiQL, documentAST, result, promise>>

\* lines 112-130: only query operations are allowed on GET requests
OperationGate ==
    /\ pc = "gate"
    /\ LET operationAST == GetOperationAST(documentAST, params.operationName)
       IN  IF /\ request.method = "GET"
              /\ operationAST # 0
              /\ documentAST[operationAST].operation # "query"
           THEN IF showGraphiQL
                THEN /\ response' = RespondWithGraphiQL(response, params,
                                                        finalOptions.graphiql)
                     /\ pc' = "done"
                     /\ promise' = "resolved"
                     /\ thrown' = thrown
                ELSE /\ Throw(One(HttpError(405,
                              "Can only perform a " \o documentAST[operationAST].operation
                                  \o " operation from a POST request.",
                              << <<"Allow", "POST">> >>)))
                     /\ UNCHANGED <<response, promise>>
           ELSE /\ pc' = "execute"
                /\ UNCHANGED <<response, promise, thrown>>
    /\ callerGraphiql' = IF pc' = "done"
                         THEN AssignProps(callerGraphiql, finalOptions, params)
                         ELSE callerGraphiql
    /\ calls' = IF request.method = "GET" THEN Append(calls, "getOperationAST") ELSE calls
    /\ UNCHANGED <<request, options, previous, other,
                   firstUserOptions, userOptions, finalOptions, params,
                   showGraphiQL, documentAST, result>>

\* lines 134-143: the argument of executeFn
ExecuteArgs(fo, doc, p) ==
    [schema |-> fo.schema, document |-> doc, variableValues |-> p.variables,
     operationName |-> p.operationName]

\* lines 132-148: result = await finalOptions.executeFn({...})
Execute ==
    /\ pc = "execute"
    /\ calls' = Append(calls, "executeFn")
    /\ \/ /\ \E r \in ExecutionResults : result' = r
          /\ pc' = "extensions"
          /\ UNCHANGED <<response, thrown>>
       \/ /\ \E t \in HookThrowables : Throw(t)
          /\ response' = SetStatus(response, 400)
          /\ UNCHANGED result
    /\ UNCHANGED <<request, options, previous, other, callerGraphiql,
                   firstUserOptions, userOptions, finalOptions, params,
                   showGraphiQL, documentAST, promise>>

\* the fallback looking at the errors of the result instead of its data
StatusFallbackOnErrors(resp, res) ==
    IF resp.statusCode = 200 /\ Len(res.errors) > 0
    THEN SetStatus(resp, 500)
    ELSE resp

\* lines 166-173: no data in the result of a run still at 200 is a 500
StatusFallback(resp, res) ==
    IF resp.statusCode = 200 /\ res.data \in {"", "null"}
    THEN SetStatus(resp, 500)
    ELSE resp

\* lines 153-159: the argument of the extensions hook
ExtensionsArgs(fo, doc, p, res) ==
    [document |-> doc, variables |-> p.variables, operationName |-> p.operationName,
     result |-> res, context |-> fo.context]

\* lines 150-173: the extensions hook, then the status fallback
Extensions ==
    /\ pc = "extensions"
    /\ \/ /\ ~finalOptions.extensions
          /\ response' = StatusFallback(response, result)
          /\ pc' = "format"
          /\ UNCHANGED <<result, thrown, calls>>
       \/ /\ finalOptions.extensions
          /\ calls' = Append(calls, "extensions")
          /\ \E extensions \in ExtensionsReturns
                    \cup {ReportingHook(ExtensionsArgs(finalOptions, documentAST,
                                                       params, result))} :
                result' = IF extensions = "" THEN result
                          ELSE [result EXCEPT !.keys = WithKey(@, "extensions"),
                                              !.extensions = extensions]
          /\ response' = StatusFallback(response, result')
          /\ pc' = "format"
          /\ thrown' = thrown
       \/ /\ finalOptions.extensions
          /\ calls' = Append(calls, "extensions")
          /\ \E t \in HookThrowables : Throw(t)
          /\ UNCHANGED <<result, response>>
    /\ UNCHANGED <<request, options, previous, other, callerGraphiql,
                   firstUserOptions, userOptions, finalOptions, params,
                   showGraphiQL, documentAST, promise>>

\* lines 174-213: the catch clause
CatchErrors ==
    /\ pc = "catch"
    /\ result' = [result EXCEPT !.keys = WithKey(@, "errors"),
                                !.errors = [i \in 1..Len(thrown.items) |->
                                               MappedError(thrown.items[i])]]
    /\ response' = MapAll(response, thrown.items)
    /\ pc' = "format"
    /\ UNCHANGED <<request, options, previous, other, callerGraphiql,
                   firstUserOptions, userOptions, finalOptions, params,
                   showGraphiQL, documentAST, thrown, calls, promise>>

\* does the result have an errors list to format?
HasErrors(res) == \E i \in 1..Len(res.keys) : res.keys[i] = "errors"

\* the errors always projected by toJSON
FormattedByToJSON(res, useFormatErrorFn) ==
    [keys |-> res.keys, data |-> res.data, extensions |-> res.extensions,
     errors |-> [i \in 1..Len(res.errors) |-> ToJSON(res.errors[i])]]

\* lines 215-222 when no formatter throws
Formatted(res, useFormatErrorFn) ==
    [keys |-> res.keys, data |-> res.data, extensions |-> res.extensions,
     errors |-> [i \in 1..Len(res.errors) |->
                    IF useFormatErrorFn THEN FormatErrorFn(res.errors[i])
                    ELSE ToJSON(res.errors[i])]]

\* the write of the JSON body with the pretty flag ignored
SendCompactOnly(resp, formatted, pretty) ==
    ResponseJson(resp, Stringify(formatted, FALSE))

\* a write that stamps the response with the number of the run
SendStamped(resp, formatted, pretty) ==
    SetHeader(IF pretty
              THEN SendResponse(resp, "application/json", Stringify(formatted, TRUE))
              ELSE ResponseJson(resp, Stringify(formatted, FALSE)),
              "Retry-After", IF previous.ran THEN "2" ELSE "1")

\* lines 224-235: the write of the JSON body
Send(resp, formatted, pretty) ==
    IF pretty THEN SendResponse(resp, "application/json", Stringify(formatted, TRUE))
    ELSE ResponseJson(resp, Stringify(formatted, FALSE))

\* lines 215-235: format the errors and write the response
FormatAndSend ==
    /\ pc = "format"
    /\ pc' = "done"
    /\ LET useFormatErrorFn == finalOptions.defined /\ finalOptions.formatErrorFn
           formats == useFormatErrorFn /\ HasErrors(result) /\ Len(result.errors) > 0
           pretty == finalOptions.defined /\ finalOptions.pretty
       IN  /\ calls' = IF formats THEN Append(calls, "formatErrorFn") ELSE calls
           /\ \/ /\ pretty \/ response.kind = "express"
                 /\ response' = Send(response, Formatted(result, useFormatErrorFn), pretty)
                 /\ promise' = "resolved"
              \/ /\ ~pretty /\ response.kind # "express"
                 /\ promise' = "rejected"
                 /\ UNCHANGED response
              \/ /\ formats
                 /\ promise' = "rejected"
                 /\ UNCHANGED response
    /\ UNCHANGED <<request, options, previous, other, callerGraphiql,
                   firstUserOptions, userOptions, finalOptions, params,
                   showGraphiQL, documentAST, result, thrown>>

Next ==
    \/ ResolveOptionsFirst
    \/ GetParams
    \/ ResolveOptionsSecond
    \/ CheckRequest
    \/ ValidateSchema
    \/ Parse
    \/ Validate
    \/ OperationGate
    \/ Execute
    \/ Extensions
    \/ CatchErrors
    \/ FormatAndSend

Spec == Init /\ [][Next]_vars

\* The runs of GET requests that pass the JSON text of a structured value
\* as variables in the query string, on a server response, with options
\* that hold a valid schema and no hook.
RoundTripRequests ==
    { [method |-> "GET", accept |-> <<>>,
       url |-> Url(Str(QueryText), Str(TextOfChars[JsonStringifyChars(v)]), Null, Null),
       body |-> NoBody.body, contentType |-> NoBody.contentType,
       contentEncoding |-> NoBody.contentEncoding, chunks |-> NoBody.chunks,
       text |-> NoBody.text,
       protocol |-> "http", host |-> "example.com", forwardedHost |-> Undefined,
       originalUrl |-> <<"/graphql", "?", "query&variables">>] : v \in StructuredValues }

InitRoundTrip ==
    /\ request \in RoundTripRequests
    /\ options = [form |-> "value",
                  value |-> UserOptions("valid", "false", "undefined", FALSE, FALSE)]
    /\ response = NewResponse("express")
    /\ pc = "start"
    /\ userOptions = NotAnObject
    /\ firstUserOptions = NotAnObject
    /\ previous = NoPrevious
    /\ other = NoOther
    /\ callerGraphiql = NoProps
    /\ finalOptions = NoFinalOptions
    /\ params = NoParams
    /\ showGraphiQL = FALSE
    /\ documentAST = NoDocument
    /\ result = EmptyResult
    /\ thrown = Nothing
    /\ calls = <<>>
    /\ promise = "pending"

SpecRoundTrip == InitRoundTrip /\ [][Next]_vars

\* The runs that resolve the options of the interactive page: GET and POST
\* requests with or without a query, behind a proxy or not, mounted at two
\* paths, on a server response, with options given as a value that hold a
\* valid schema and each kind of graphiql option.
GraphiqlOriginalUrls ==
    { <<"/graphql">>,
      <<"/graphql", "?", "query">>,
      <<"/api/graphql", "?", "query", "?", "raw">> }

GraphiqlRequests ==
    { [method |-> m, accept |-> <<Range("text/html", 10), Range("*/*", 8)>>,
       url |-> IF Len(o) = 1 THEN Url(Null, Null, Null, Null)
               ELSE Url(Str(QueryText), Null, Null, Null),
       body |-> BodyUnparsed, contentType |-> NoContentType,
       contentEncoding |-> Undefined, chunks |-> <<>>, text |-> "",
       protocol |-> pr, host |-> "example.com", forwardedHost |-> f,
       originalUrl |-> o] :
      m \in {"GET", "POST"}, pr \in {"http", "https"},
      f \in {Undefined, Str("proxy.example.org")}, o \in GraphiqlOriginalUrls }

GraphiqlOptions ==
    {"undefined", "false", "true", "null", "object", "url", "props"}

InitGraphiql ==
    /\ request \in GraphiqlRequests
    /\ options \in { [form |-> "value",
                      value |-> UserOptions("valid", g, "undefined", FALSE, FALSE)] :
                    g \in GraphiqlOptions }
    /\ response = NewResponse("express")
    /\ pc = "start"
    /\ userOptions = NotAnObject
    /\ firstUserOptions = NotAnObject
    /\ previous = NoPrevious
    /\ other = NoOther
    /\ callerGraphiql = NoProps
    /\ finalOptions = NoFinalOptions
    /\ params = NoParams
    /\ showGraphiQL = FALSE
    /\ documentAST = NoDocument
    /\ result = EmptyResult
    /\ thrown = Nothing
    /\ calls = <<>>
    /\ promise = "pending"

SpecGraphiql == InitGraphiql /\ [][Next]_vars

\* The runs of POST requests whose body is read from the stream: a query
\* of type application/graphql in one or two chunks, plain or compressed,
\* that arrives whole or is cut by the connection closing, on a server
\* response, with options given as a value that hold a valid schema.
ClosingChunks == { <<9>>, <<4, 5>>, <<Closed>>, <<4, Closed>> }

ClosingEncodings == {Undefined, Str("Identity"), Str("gzip"), Str("GZIP"), Str("deflate")}

ClosingRequests ==
    { [method |-> "POST", accept |-> <<>>, url |-> Url(Null, Null, Null, Null),
       body |-> BodyUnparsed, contentType |-> ContentType("application/graphql", ""),
       contentEncoding |-> e, chunks |-> c, text |-> QueryText,
       protocol |-> "http", host |-> "example.com", forwardedHost |-> Undefined,
       originalUrl |-> <<"/graphql">>] :
      e \in ClosingEncodings, c \in ClosingChunks }

InitClose ==
    /\ request \in ClosingRequests
    /\ options \in { [form |-> "value",
                      value |-> UserOptions("valid", "false", p, x, FALSE)] :
                    p \in {"undefined", "true"}, x \in BOOLEAN }
    /\ response = NewResponse("express")
    /\ pc = "start"
    /\ userOptions = NotAnObject
    /\ firstUserOptions = NotAnObject
    /\ previous = NoPrevious
    /\ other = NoOther
    /\ callerGraphiql = NoProps
    /\ finalOptions = NoFinalOptions
    /\ params = NoParams
    /\ showGraphiQL = FALSE
    /\ documentAST = NoDocument
    /\ result = EmptyResult
    /\ thrown = Nothing
    /\ calls = <<>>
    /\ promise = "pending"

SpecClose == InitClose /\ [][Next]_vars

\* The runs that embed values of the request in the interactive page: GET
\* requests of a client that prefers HTML or sends no Accept header, whose
\* query, variables, operation name, host headers and path hold a '/' or a
\* '</script>' or not, on a server response, with options given as a value
\* that hold a valid schema and enable the page.
PageRequests ==
    { [method |-> "GET", accept |-> a,
       url |-> Url(Str(q), v, o, Null),
       body |-> BodyUnparsed, contentType |-> NoContentType,
       contentEncoding |-> Undefined, chunks |-> <<>>, text |-> "",
       protocol |-> "http", host |-> h, forwardedHost |-> f,
       originalUrl |-> <<path, "?", "query">>] :
      a \in {<<>>, <<Range("text/html", 10), Range("*/*", 8)>>},
      q \in {QueryText, ScriptEnd},
      v \in {Null, Str(TextOfChars[SlashVariablesChars])},
      o \in {Null, Str(ScriptEnd)},
      h \in {"example.com", ScriptEnd},
      f \in {Undefined, Str(ScriptEnd)},
      path \in {"/graphql", "/graphql/</script>"} }

InitPage ==
    /\ request \in PageRequests
    /\ options \in { [form |-> "value",
                      value |-> UserOptions("valid", g, "undefined", FALSE, FALSE)] :
                    g \in {"true", "url", "object"} }
    /\ response = NewResponse("express")
    /\ pc = "start"
    /\ userOptions = NotAnObject
    /\ firstUserOptions = NotAnObject
    /\ previous = NoPrevious
    /\ other = NoOther
    /\ callerGraphiql = NoProps
    /\ finalOptions = NoFinalOptions
    /\ params = NoParams
    /\ showGraphiQL = FALSE
    /\ documentAST = NoDocument
    /\ result = EmptyResult
    /\ thrown = Nothing
    /\ calls = <<>>
    /\ promise = "pending"

SpecPage == InitPage /\ [][Next]_vars

\* Two runs of the handler that graphqlHTTP returned once, so that they
\* share the options: the locals of the run that is not running are kept in
\* other, and the runs change places where a run may be suspended (before
\* its first step, at the await of the options, of getGraphQLParams, of
\* executeFn and of the extensions hook, and at its end).
Locals ==
    [request |-> request, response |-> response, pc |-> pc, userOptions |-> userOptions,
     firstUserOptions |-> firstUserOptions, finalOptions |-> finalOptions,
     params |-> params, showGraphiQL |-> showGraphiQL, documentAST |-> documentAST,
     result |-> result, thrown |-> thrown, calls |-> calls, promise |-> promise]

\* the locals of a run that has not begun
NewRun(req, kind) ==
    [request |-> req, response |-> NewResponse(kind), pc |-> "start",
     userOptions |-> NotAnObject, firstUserOptions |-> NotAnObject,
     finalOptions |-> NoFinalOptions, params |-> NoParams, showGraphiQL |-> FALSE,
     documentAST |-> NoDocument, result |-> EmptyResult, thrown |-> Nothing,
     calls |-> <<>>, promise |-> "pending"]

SuspensionPoints == {"start", "params", "options", "check", "extensions", "format", "catch",
                     "done"}

Switch ==
    /\ other # NoOther
    /\ pc \in SuspensionPoints
    /\ other.pc # "done"
    /\ request' = other.request
    /\ response' = other.response
    /\ pc' = other.pc
    /\ userOptions' = other.userOptions
    /\ firstUserOptions' = other.firstUserOptions
    /\ finalOptions' = other.finalOptions
    /\ params' = other.params
    /\ showGraphiQL' = other.showGraphiQL
    /\ documentAST' = other.documentAST
    /\ result' = other.result
    /\ thrown' = other.thrown
    /\ calls' = other.calls
    /\ promise' = other.promise
    /\ other' = Locals
    /\ UNCHANGED <<options, previous, callerGraphiql>>

NextConcurrent ==
    \/ Next
    \/ Switch

\* the requests of the two runs: a GET with a query, of a client that
\* prefers HTML or sends no Accept header
ConcurrentRequests ==
    { [method |-> "GET", accept |-> a,
       url |-> Url(Str(q), Null, Null, Null),
       body |-> BodyUnparsed, contentType |-> NoContentType,
       contentEncoding |-> Undefined, chunks |-> <<>>, text |-> "",
       protocol |-> "http", host |-> "example.com", forwardedHost |-> Undefined,
       originalUrl |-> <<"/graphql", "?", "query">>] :
      a \in {<<>>, <<Range("text/html", 10), Range("*/*", 8)>>},
      q \in {QueryText, ScriptEnd} }

InitConcurrent ==
    /\ request \in ConcurrentRequests
    /\ other \in {NewRun(r, "express") : r \in ConcurrentRequests}
    /\ options \in { [form |-> "value",
                      value |-> UserOptions("valid", g, "undefined", FALSE, FALSE)] :
                    g \in {"true", "props"} }
    /\ response = NewResponse("express")
    /\ pc = "start"
    /\ userOptions = NotAnObject
    /\ firstUserOptions = NotAnObject
    /\ previous = NoPrevious
    /\ callerGraphiql = NoProps
    /\ finalOptions = NoFinalOptions
    /\ params = NoParams
    /\ showGraphiQL = FALSE
    /\ documentAST = NoDocument
    /\ result = EmptyResult
    /\ thrown = Nothing
    /\ calls = <<>>
    /\ promise = "pending"

SpecConcurrent == InitConcurrent /\ [][NextConcurrent]_vars

\* The same runs under the scheduling of the event loop: a run whose next
\* step can be taken takes it (every await of the handler but that of a
\* promise that never settles is resumed).
SpecCloseLive == SpecClose /\ WF_vars(Next)

\* What the hooks of a run did: what the options function returned, what
\* parseFn returned, what a hook threw or validateFn returned (in thrown,
\* with the handler's own throws), what executeFn and the extensions hook
\* returned (in result, with the mapped errors), and the calls made.
HookOutcomes ==
    <<firstUserOptions, userOptions, documentAST, thrown, result, calls>>

\* lines 39-47: the handler is called again, with a request of the same
\* data and a new response of the same kind; the middleware keeps nothing
\* of a run but the options it was created with
Again ==
    /\ pc = "done"
    /\ ~previous.ran
    /\ previous' = [ran |-> TRUE, response |-> response, promise |-> promise,
                    outcomes |-> HookOutcomes]
    /\ response' = NewResponse(response.kind)
    /\ pc' = "start"
    /\ userOptions' = NotAnObject
    /\ firstUserOptions' = NotAnObject
    /\ finalOptions' = NoFinalOptions
    /\ params' = NoParams
    /\ showGraphiQL' = FALSE
    /\ documentAST' = NoDocument
    /\ result' = EmptyResult
    /\ thrown' = Nothing
    /\ calls' = <<>>
    /\ promise' = "pending"
    /\ UNCHANGED <<request, options, other, callerGraphiql>>

NextTwice ==
    \/ Next
    \/ Again

\* Two runs of one middleware on requests of the same data: a GET request
\* with a query and variables and a POST request with a JSON body, sent for
\* JSON or by a browser, with options that hold an extensions hook and a
\* formatter or that offer the interactive page, on both kinds of response.
TwiceRequests ==
    { r \in Requests :
        /\ \/ r.method = "GET" /\ r.body = BodyUnparsed /\ r.contentType = NoContentType
                /\ r.url = Url(Str(QueryText), Str("{\"a\":1}"), Str("B"), Null)
           \/ r.method = "POST" /\ r.chunks = <<20, 19>>
                /\ r.url = Url(Null, Null, Null, Null)
        /\ r.accept \in {<<>>, <<Range("text/html", 10), Range("*/*", 8)>>} }

TwiceOptions ==
    { [form |-> "value", value |-> UserOptions("valid", "false", "undefined", TRUE, TRUE)],
      [form |-> "value", value |-> UserOptions("valid", "true", "undefined", FALSE, FALSE)] }

InitTwice ==
    /\ request \in TwiceRequests
    /\ options \in TwiceOptions
    /\ response \in {NewResponse(k) : k \in ResponseKinds}
    /\ pc = "start"
    /\ userOptions = NotAnObject
    /\ firstUserOptions = NotAnObject
    /\ previous = NoPrevious
    /\ other = NoOther
    /\ callerGraphiql = NoProps
    /\ finalOptions = NoFinalOptions
    /\ params = NoParams
    /\ showGraphiQL = FALSE
    /\ documentAST = NoDocument
    /\ result = EmptyResult
    /\ thrown = Nothing
    /\ calls = <<>>
    /\ promise = "pending"

SpecTwice == InitTwice /\ [][NextTwice]_vars

---------------------------------------------------------------------------
(* Properties of a handler run. *)

Called(name) == \E i \in 1..Len(calls) : calls[i] = name

Header(name) == response.headers[name]

\* the status of a response that started at 200 (a response object without
\* a statusCode has none until the handler assigns one)
StatusIs(code) ==
    IF response.kind = "express" THEN response.statusCode = code
    ELSE response.statusCode \in {StatusUndefined, code}

JsonPreferred == Accepts(request.accept, <<"json", "html">>) = "json"

\* C1: for every request and configuration, the promise the handler
\* returns resolves and never rejects (stated for a server response, which
\* has the json method the handler calls).
C1_PromiseNeverRejects ==
    response.kind = "express" => promise # "rejected"

\* C2: every handler run performs exactly one terminal write to the
\* response, never zero and never two, and nothing is written before the
\* run ends (stated for a server response).
C2_ExactlyOneWrite ==
    response.kind = "express" =>
        /\ pc # "done" => Len(response.writes) = 0
        /\ pc = "done" => Len(response.writes) = 1

\* C3: every request whose method is neither GET nor POST ends with status
\* 405 and the header Allow: GET, POST, whatever its body, headers, query
\* string and configuration.
C3_OtherMethodsAre405 ==
    (pc = "done" /\ request.method \notin {"GET", "POST"}) =>
        /\ response.statusCode = 405
        /\ Header("Allow") = "GET, POST"

\* the run is that of a GET request, with raw unset and JSON preferred,
\* whose query was parsed, validated and executed to a result with data
GetExecutedWithData ==
    /\ pc = "done"
    /\ request.method = "GET"
    /\ ~params.raw
    /\ JsonPreferred
    /\ Called("executeFn")
    /\ result.data = "world"

\* the response written is the JSON result with status 200: compact
\* without the pretty flag, indented by two spaces and with its length in
\* Content-Length with it
JsonSuccessWritten ==
    Len(response.writes) = 1 =>
        LET formatted == Formatted(result, finalOptions.formatErrorFn)
            body == response.writes[1].body
        IN  /\ StatusIs(200)
            /\ Header("Content-Type") = "application/json; charset=utf-8"
            /\ ~finalOptions.pretty =>
                  /\ body = Stringify(formatted, FALSE)
                  /\ result.keys = <<"data">> => body = "{\"data\":{\"hello\":\"world\"}}"
            /\ finalOptions.pretty =>
                  /\ body = Stringify(formatted, TRUE)
                  /\ Header("Content-Length") = Digits(Len(body))
                  /\ result.keys = <<"data">> =>
                        body = "{\n  \"data\": {\n    \"hello\": \"world\"\n  }\n}"

C5_BareResponseGetsCompactJson ==
    (/\ pc = "done"
     /\ response.kind = "bare"
     /\ Called("executeFn")
     /\ thrown = Nothing
     /\ result.keys = <<"data">>
     /\ ~finalOptions.pretty) =>
        /\ Len(response.writes) = 1
        /\ response.writes[1].via = "end"
        /\ response.writes[1].body = "{\"data\":{\"hello\":\"world\"}}"
        /\ Header("Content-Type") = "application/json; charset=utf-8"
        /\ Header("Content-Length") = "26"

\* C6: once validateSchema reported an error for the resolved schema, the
\* status is 500 and stays 500 through error mapping and the response.
C6_InvalidSchemaIs500 ==
    (Called("validateSchema") /\ finalOptions.schema = "invalid"
        /\ pc \in {"catch", "format", "done"}) =>
        /\ response.statusCode = 500
        /\ ~Called("parseFn") /\ ~Called("validateFn") /\ ~Called("executeFn")

\* C6 witness: a response written with status 500 for an invalid schema
C6_InvalidSchemaResponded ==
    /\ pc = "done"
    /\ finalOptions.schema = "invalid"
    /\ Called("validateSchema")
    /\ Len(response.writes) = 1
    /\ response.statusCode = 500

\* the operation of the document that the operation name of the request
\* selects: the only one when no name is given, else the first so named
Selected(i) ==
    /\ i \in 1..Len(documentAST)
    /\ IF params.operationName.t = "undefined" THEN Len(documentAST) = 1
       ELSE /\ documentAST[i].name = params.operationName.s
            /\ \A j \in 1..(i - 1) : documentAST[j].name # params.operationName.s

\* the run is that of a GET request that reached the operation gate with a
\* mutation or a subscription selected, the interactive page not shown
GetSelectsNonQuery ==
    /\ request.method = "GET"
    /\ Called("getOperationAST")
    /\ ~showGraphiQL
    /\ \E i \in 1..Len(documentAST) :
          Selected(i) /\ documentAST[i].operation \in {"mutation", "subscription"}

PageWritten == \E i \in 1..Len(response.writes) : response.writes[i].type = "text/html"

\* C7: a GET request whose selected operation is a mutation or a
\* subscription, the interactive page not shown, ends with status 405 and
\* Allow: POST, and executeFn is never invoked for it.
C7_GetNonQueryIs405 ==
    GetSelectsNonQuery =>
        /\ ~Called("executeFn")
        /\ ~PageWritten
        /\ pc \in {"catch", "format", "done"}
        /\ pc \in {"format", "done"} =>
              /\ response.statusCode = 405
              /\ Header("Allow") = "POST"

\* C7 witness: a subscription selected by name on a GET, answered with 405
C7_NamedSubscriptionRefused ==
    /\ GetSelectsNonQuery
    /\ params.operationName = Str("B")
    /\ Len(documentAST) = 2
    /\ pc = "done"
    /\ Len(response.writes) = 1
    /\ response.statusCode = 405

None(names) == \A n \in names : ~Called(n)

RawKeyPresent ==
    \/ request.url.raw.t # "null"
    \/ ParseBody(request).ok /\ ParseBody(request).data.raw.t # "undefined"

\* C9: the interactive page is shown only if params.raw is false, the
\* negotiation over [json, html] selects html and the graphiql toggle is
\* truthy; a request that carries the raw key gets a JSON response
\* whatever its Accept header.
C9_PageOnlyWhenAllowed ==
    /\ PageWritten =>
          /\ params.raw = FALSE
          /\ Accepts(request.accept, <<"json", "html">>) = "html"
          /\ GraphiqlToggle(userOptions)
    /\ RawKeyPresent =>
          \A i \in 1..Len(response.writes) : response.writes[i].type = "application/json"

\* C9 witness: a JSON response to a request with the raw key that prefers
\* html and has the toggle on
C9_RawForcesJson ==
    /\ RawKeyPresent
    /\ Accepts(request.accept, <<"json", "html">>) = "html"
    /\ GraphiqlToggle(userOptions)
    /\ pc = "done"
    /\ Len(response.writes) = 1
    /\ response.writes[1].type = "application/json"

MustProvideQuery == "Must provide query string."

\* the run reached the query check (a GET or POST request, the interactive
\* page not shown) without a query
ReachedQueryCheckWithoutQuery ==
    /\ Called("canDisplayGraphiQL")
    /\ request.method \in {"GET", "POST"}
    /\ ~showGraphiQL
    /\ params.query.t = "undefined"

\* C10: if no query was resolved and the interactive page is not shown,
\* the response has status 400 with the single error 'Must provide query
\* string.', and validateSchema, parseFn, validateFn and executeFn are not
\* invoked.
C10_MissingQueryIs400 ==
    ReachedQueryCheckWithoutQuery =>
        /\ thrown = One(HttpError(400, MustProvideQuery, <<>>))
        /\ None({"validateSchema", "parseFn", "validateFn", "executeFn"})
        /\ pc \in {"catch", "format", "done"}
        /\ pc \in {"format", "done"} =>
              /\ response.statusCode = 400
              /\ Len(result.errors) = 1
              /\ result.errors[1].message = MustProvideQuery
        /\ (Len(response.writes) = 1 /\ ~finalOptions.formatErrorFn /\ ~finalOptions.pretty) =>
              response.writes[1].body = "{\"errors\":[{\"message\":\"Must provide query string.\"}]}"

\* C10 witness: a body whose query is not a string, answered with 400
C10_NonStringQueryRefused ==
    /\ ReachedQueryCheckWithoutQuery
    /\ request.body.t = "object"
    /\ request.body.o.query.t = "number"
    /\ pc = "done"
    /\ Len(response.writes) = 1
    /\ response.statusCode = 400

\* the last function the handler called before formatting the errors
LastCall ==
    LET made == SelectSeq(calls, LAMBDA c : c # "formatErrorFn")
    IN  IF Len(made) = 0 THEN "" ELSE made[Len(made)]

\* the run left the try block through a throw of the named stage
FailedIn(stage) == thrown # Nothing /\ LastCall = stage /\ pc \in {"catch", "format", "done"}

\* parseFn threw; validateFn returned a non-empty list of errors (the only
\* non-empty array that travels to the catch clause from that stage);
\* executeFn threw or rejected
ParseFailed    == FailedIn("parseFn")
ValidateFailed == FailedIn("validateFn") /\ thrown.isArray /\ Len(thrown.items) > 0
ExecuteFailed  == FailedIn("executeFn")

\* C11: parseFn throwing, validateFn returning a non-empty error list and
\* executeFn throwing or rejecting each end with status exactly 400,
\* whatever status the thrown value carries, and every later stage is
\* skipped.
C11_QueryFailuresAre400 ==
    /\ (ParseFailed \/ ValidateFailed \/ ExecuteFailed) => response.statusCode = 400
    /\ ParseFailed => None({"validateFn", "getOperationAST", "executeFn", "extensions"})
    /\ ValidateFailed => None({"getOperationAST", "executeFn", "extensions"})
    /\ ExecuteFailed => None({"extensions"})

\* C11 witness: parseFn threw an HttpError with status 403 and a header;
\* the header was set, the response written with status 400
C11_Forbidden403Becomes400 ==
    /\ ParseFailed
    /\ thrown = One(HttpError(403, "Forbidden", << <<"Retry-After", "1">> >>))
    /\ pc = "done"
    /\ Len(response.writes) = 1
    /\ Header("Retry-After") = "1"
    /\ response.statusCode = 400

\* executeFn returned its result (the extensions hook is called only then)
ExecuteReturned ==
    /\ pc \in {"format", "done"}
    /\ Called("executeFn")
    /\ thrown = Nothing \/ Called("extensions")

\* the status after a returned execution: 500 when the data is null or
\* absent and the response was at 200, else the status the response had
StatusFollowsData ==
    /\ (result.data \in {"", "null"} /\ response.kind = "express") =>
          response.statusCode = 500
    /\ (result.data \in {"", "null"} /\ response.kind = "bare") =>
          response.statusCode = StatusUndefined
    /\ result.data = "world" => StatusIs(200)

C12_NullDataIs500 ==
    /\ ExecuteReturned
    /\ thrown = Nothing
    /\ result.data = "null"
    /\ pc = "done"
    /\ response.statusCode = 500

\* getGraphQLParams returned the parameters of the request
ParamsResolved == Called("getGraphQLParams") /\ GetGraphQLParams(request).ok

\* the value of a key: that of the query string when it has the key, else
\* that of the body
UrlThenBody(key) ==
    IF request.url[key].t # "null" THEN request.url[key]
    ELSE ParseBody(request).data[key]

\* C13: for query, variables and operationName the value of the query
\* string wins whenever the query string has the key, and the body value is
\* used only when it lacks the key; raw is true exactly when the key raw is
\* in the query string or in the body, whatever its value.
C13_QueryStringWins ==
    ParamsResolved =>
        /\ \A key \in {"query", "operationName"} :
              params[key] = IF UrlThenBody(key).t = "string" THEN UrlThenBody(key)
                            ELSE Undefined
        /\ LET v == UrlThenBody("variables")
           IN  /\ v.t = "string" => params.variables = JsonParse(v.s)
               /\ (v.t # "string" /\ TypeOf(v) = "object") => params.variables = v
               /\ (v.t # "string" /\ TypeOf(v) # "object") => params.variables = Undefined
        /\ params.raw = RawKeyPresent

\* C13 witness: every key in the query string and in the body, an empty
\* query in the query string, raw: false in the body
C13_EmptyUrlQueryWins ==
    /\ ParamsResolved
    /\ request.url.query = Str("")
    /\ request.body.o.query = Str(MutationText)
    /\ request.body.o.raw = JsonBoolean(FALSE)
    /\ params.query = Str("")
    /\ params.operationName = Str("A")
    /\ params.variables = JsonObject(<<JsonEntry(<<"a">>, JsonNumber(1))>>)
    /\ params.raw
    /\ pc = "done"

\* the parameters taken from the body of a request whose query string
\* lacks the keys
C13_BodyUsedWithoutUrlKeys ==
    /\ ParamsResolved
    /\ request.url.query = Null
    /\ params.query = Str(MutationText)
    /\ params.variables = Obj("{b:2}")
    /\ params.operationName = Str("B")
    /\ pc = "done"

\* JSON.stringify(v) of each structured value, and the structured value
\* each of these texts was made from
StringifiedValues == [v \in StructuredValues |-> TextOf(JsonStringifyChars(v))]

SentValue ==
    [text \in {StringifiedValues[v] : v \in StructuredValues} |->
        CHOOSE v \in StructuredValues : StringifiedValues[v] = text]

\* C14: for every structured value v, a request that passes the JSON text
\* of v as variables in the query string has v as its variables, and
\* executeFn is called with variableValues equal to v.
C14_VariablesRoundTrip ==
    LET sent == request.url.variables
    IN  (sent.t = "string" /\ sent.s \in DOMAIN SentValue) =>
            /\ Called("getGraphQLParams") => params.variables = SentValue[sent.s]
            /\ Called("executeFn") =>
                  ExecuteArgs(finalOptions, documentAST, params).variableValues
                      = SentValue[sent.s]

\* C14 witness: executeFn called with a nested value, the response written
C14_NestedValuePassed ==
    /\ request.url.variables = Str("{\"a\":[false,null]}")
    /\ Called("executeFn")
    /\ ExecuteArgs(finalOptions, documentAST, params).variableValues =
          JsonObject(<<JsonEntry(<<"a">>, JsonArray(<<JsonBoolean(FALSE), JsonNull>>))>>)
    /\ pc = "done"
    /\ Len(response.writes) = 1

\* the variables parameter of the request is a string that is not JSON
InvalidVariables ==
    LET v == UrlThenBody("variables")
    IN  v.t = "string" /\ ~IsJsonValue(v) /\ ~JsonValid(v.s)

VariablesAreInvalidJson == "Variables are invalid JSON."

\* what the claim says of a run that has ended
InvalidVariablesRefused ==
    /\ response.statusCode = 400
    /\ None({"options(request, response, params)", "validateSchema", "parseFn",
             "validateFn", "executeFn", "extensions"})
    /\ result.keys = <<"errors">>
    /\ result.data = ""
    /\ Len(result.errors) = 1
    /\ result.errors[1].message = VariablesAreInvalidJson
    /\ (Len(response.writes) = 1 /\ ~finalOptions.formatErrorFn /\ ~finalOptions.pretty) =>
          response.writes[1].body = "{\"errors\":[{\"message\":\"Variables are invalid JSON.\"}]}"

VariablesReached ==
    /\ Called("getGraphQLParams")
    /\ ParseBody(request).ok
    /\ ~(ParseBody(request).isNull /\ request.url.query.t = "null")

ReadsStream == request.body.t = "undefined" /\ request.contentType.t = "ok"
StreamRead == Called("getGraphQLParams") /\ ReadsStream

\* the size of the first i chunks of the decompressed stream
RECURSIVE SizeOfFirst(_, _)
SizeOfFirst(chunks, i) == IF i = 0 THEN 0 ELSE SizeOfFirst(chunks, i - 1) + chunks[i]

\* the first chunk that takes the size over the limit, 0 when none does
FirstChunkOver(chunks) ==
    LET over == {i \in 1..Len(chunks) : SizeOfFirst(chunks, i) > MaxSize}
    IN  IF over = {} THEN 0 ELSE CHOOSE i \in over : \A j \in over : i <= j

EntityTooLarge == HttpError(413, "Invalid body: request entity too large.", <<>>)

\* the charset and the content encoding of the request are accepted
StreamDecoded ==
    LET r == ReadBody(request, request.contentType)
    IN  r.ok \/ r.error.status # 415

\* C16: a body read from the stream whose decompressed size is at most
\* 102400 bytes is accepted, one byte more fails with 413 and returns no
\* data; the failure is raised at the first chunk that takes the size over
\* the limit and no later chunk is consumed.
C16_SizeLimit ==
    (StreamRead /\ StreamDecoded) =>
        LET b == ParseBody(request)
            size == SizeOfFirst(request.chunks, Len(request.chunks))
        IN  /\ size <= MaxSize =>
                  /\ b.consumed = Len(request.chunks)
                  /\ b.ok \/ b.error.status = 400
            /\ size > MaxSize =>
                  /\ ~b.ok
                  /\ b.error = EntityTooLarge
                  /\ b.consumed = FirstChunkOver(request.chunks)
                  /\ thrown = One(EntityTooLarge)
                  /\ params = NoParams
                  /\ pc \in {"catch", "format", "done"}
                  /\ pc \in {"format", "done"} =>
                        /\ response.statusCode = 413
                        /\ result.keys = <<"errors">>
                        /\ result.data = ""

\* C16 witness: a stream that crosses the limit by one byte at its second
\* chunk of three, refused with 413 before the third chunk
C16_StopsAtFirstChunkOver ==
    /\ StreamRead
    /\ request.chunks = <<MaxSize - 1, 2, 5>>
    /\ ParseBody(request).consumed = 2
    /\ pc = "done"
    /\ Len(response.writes) = 1
    /\ response.statusCode = 413

\* a gzip stream of exactly 102400 decompressed bytes, read whole
C16_ExactLimitAccepted ==
    /\ StreamRead
    /\ request.chunks = <<MaxSize - 1, 1>>
    /\ ParseBody(request).ok
    /\ ParseBody(request).consumed = 2
    /\ thrown # One(EntityTooLarge)
    /\ pc = "done"

\* the content-encoding header, compared without regard to case, is none
\* of identity, gzip and deflate
UnsupportedEncoding ==
    /\ request.contentEncoding.t # "undefined"
    /\ ToLowerCase(request.contentEncoding.s) \notin {"identity", "gzip", "deflate"}

\* C17: when the body has to be read from the stream and the
\* content-encoding, compared case-insensitively, is not identity, gzip or
\* deflate, the request fails with 415 before a chunk of the stream is
\* consumed; an encoding that is one of the three is not refused.
C17_UnsupportedEncodingIs415 ==
    LET b == ParseBody(request)
    IN  /\ (StreamRead /\ UnsupportedEncoding) =>
              /\ ~b.ok
              /\ b.error.kind = "http"
              /\ b.error.status = 415
              /\ b.consumed = 0
              /\ thrown = One(b.error)
              /\ pc \in {"catch", "format", "done"}
              /\ pc \in {"format", "done"} => response.statusCode = 415
        /\ (StreamRead /\ ~UnsupportedEncoding) =>
              b.ok \/ b.error.message # "Unsupported content-encoding."

\* C17 witness: a stream with content-encoding Br, refused with 415
C17_BrotliRefused ==
    /\ StreamRead
    /\ request.contentEncoding = Str("Br")
    /\ thrown = One(HttpError(415, "Unsupported content-encoding.", <<>>))
    /\ ParseBody(request).consumed = 0
    /\ pc = "done"
    /\ Len(response.writes) = 1
    /\ response.statusCode = 415

\* the charset parameter of the content-type, lower-cased, utf-8 when the
\* header gives none
NamedCharset ==
    IF request.contentType.charset = "" THEN "utf-8"
    ELSE ToLowerCase(request.contentType.charset)

UnsupportedCharset == HttpError(415, "Unsupported charset.", <<>>)

\* C18: when the body is read from the stream, the charsets utf-8 and
\* utf-16le (also spelled utf8 and utf16le) are accepted, and any other
\* charset makes the request fail with 415.
C18_CharsetsAccepted ==
    StreamRead =>
        /\ NamedCharset \in {"utf-8", "utf8", "utf-16le", "utf16le"} =>
              thrown # One(UnsupportedCharset)
        /\ NamedCharset \notin {"utf-8", "utf8", "utf-16le", "utf16le"} =>
              /\ thrown = One(UnsupportedCharset)
              /\ pc \in {"format", "done"} => response.statusCode = 415

\* the body is an application/json stream that was read whole
JsonStreamRead ==
    /\ StreamRead
    /\ request.contentType.type = "application/json"
    /\ ReadBody(request, request.contentType).ok

InvalidJsonBody == HttpError(400, "POST body sent invalid JSON.", <<>>)

\* C19: an application/json body read from the stream fails with 400 when
\* its first character after leading space, tab, line feed or carriage
\* return is not '{' or when JSON parsing fails; otherwise the parsed
\* object is what the body contributes.
C19_JsonBodyIsAnObject ==
    JsonStreamRead =>
        LET cs == Chars(request.text)
            first == SkipWhitespace(cs, 1)
            opens == first <= Len(cs) /\ cs[first] = "{"
            parsed == JsonParseChars(cs)
            b == ParseBody(request)
        IN  /\ (~opens \/ ~parsed.ok) =>
                  /\ ~b.ok
                  /\ thrown = One(InvalidJsonBody)
                  /\ pc \in {"catch", "format", "done"}
                  /\ pc \in {"format", "done"} => response.statusCode = 400
            /\ (opens /\ parsed.ok) =>
                  /\ b.ok
                  /\ b.data.query = JsValue(JsonGet(parsed.value, QueryKey))
                  /\ b.data.variables = JsValue(JsonGet(parsed.value, VariablesKey))
                  /\ b.data.operationName = JsValue(JsonGet(parsed.value, OperationNameKey))
                  /\ b.data.raw = JsValue(JsonGet(parsed.value, RawKey))
                  /\ thrown # One(InvalidJsonBody)

\* C19 witness: the body [1], which is JSON but not an object, refused
C19_ArrayBodyRefused ==
    /\ JsonStreamRead
    /\ request.text = "[1]"
    /\ thrown = One(InvalidJsonBody)
    /\ pc = "done"
    /\ Len(response.writes) = 1
    /\ response.statusCode = 400

\* an object after a leading space, parsed into the parameters
C19_ObjectBodyAccepted ==
    /\ JsonStreamRead
    /\ request.text = " {\"query\":\"mutation { m }\",\"raw\":false}"
    /\ params.query = Str(MutationText)
    /\ params.raw
    /\ pc = "done"

\* the body was parsed by an earlier middleware, or the request has no
\* content-type header
BodyAlreadyDecided ==
    request.body.t # "undefined" \/ request.contentType.t = "absent"

\* what the four cases of the claim give, in their order
DecidedBody ==
    IF request.body.t = "object" THEN request.body.o
    ELSE IF request.contentType.t = "absent" THEN EmptyObject
    ELSE IF request.body.t = "string" /\ request.contentType.type = "application/graphql"
         THEN Keyed(Str(request.body.s), Undefined, Undefined, Undefined)
    ELSE EmptyObject

\* C20: parseBody neither reads the stream nor fails when the body is
\* already a keyed object (returned as is), when there is no content-type
\* (nothing), when the body is a string with content-type
\* application/graphql (the query), and for any other already-parsed body,
\* null included (nothing); the parameters are then read from what it
\* returned.
C20_ParsedBodiesNeverFail ==
    (Called("getGraphQLParams") /\ BodyAlreadyDecided) =>
        LET b == ParseBody(request)
            p == GetGraphQLParams(request)
        IN  /\ b.ok
            /\ b.consumed = 0
            /\ b.data = DecidedBody
            /\ p.ok \/ p.error = HttpError(400, "Variables are invalid JSON.", <<>>)

---------------------------------------------------------------------------
(* Bodies of other content types. *)

\* the request has an unparsed body whose content-type is none of the three
\* parseBody knows
OtherContentType ==
    /\ request.body.t = "undefined"
    /\ request.contentType.t = "ok"
    /\ request.contentType.type \notin {"application/graphql", "application/json",
                                        "application/x-www-form-urlencoded"}

\* the same request sent without a body
WithoutBody(req) ==
    [req EXCEPT !.body = NoBody.body, !.contentType = NoBody.contentType,
                !.contentEncoding = NoBody.contentEncoding, !.chunks = NoBody.chunks,
                !.text = NoBody.text]

\* the state getGraphQLParams(req) leaves the run in: the parameters
\* assigned, or the error thrown
ExtractionLeft(r) ==
    IF r.ok THEN pc = "options" /\ params = r.value /\ thrown = Nothing
    ELSE pc = "catch" /\ thrown = One(r.error)

\* C21: for a request with an unparsed body whose content-type is none of
\* application/graphql, application/json and
\* application/x-www-form-urlencoded, the extracted parameters and the
\* success of the extraction are those of the same request without a body.
C21_OtherContentTypeContributesNothing ==
    (LastCall = "getGraphQLParams" /\ pc \in {"options", "catch"} /\ OtherContentType) =>
        ExtractionLeft(GetGraphQLParams(WithoutBody(request)))

\* a text/plain body at the size limit, in a supported charset and
\* encoding, leaves the parameters those of the request without it
C21_PlainBodyIgnored ==
    /\ LastCall = "getGraphQLParams"
    /\ OtherContentType
    /\ request.chunks = <<MaxSize>>
    /\ pc = "options"
    /\ params = NoParams

---------------------------------------------------------------------------
(* The two resolutions of the options. *)

FirstCall  == "options(request, response)"
SecondCall == "options(request, response, params)"

\* the calls of the options function so far, in order
OptionsCalls == SelectSeq(calls, LAMBDA c : c \in {FirstCall, SecondCall})

\* options is a function and getGraphQLParams returned the parameters
FunctionAfterExtraction ==
    /\ options.form = "function"
    /\ Called("getGraphQLParams")
    /\ GetGraphQLParams(request).ok

\* the second call of the options function returned (userOptions is what
\* it returned) instead of throwing
SecondReturned ==
    /\ Called(SecondCall)
    /\ ~(LastCall = SecondCall /\ thrown \in Throwables)

\* the second call returned options that resolveOptions accepts
SecondResolved == SecondReturned /\ ResolveOptions(userOptions, request).ok

\* the function is called once without the parameters before the body is
\* read, and once more with them after the extraction
CalledTwiceInOrder ==
    /\ Len(calls) >= 2 /\ calls[1] = FirstCall /\ calls[2] = "getGraphQLParams"
    /\ pc = "options" => OptionsCalls = <<FirstCall>>
    /\ pc # "options" =>
          /\ OptionsCalls = <<FirstCall, SecondCall>>
          /\ calls[3] = SecondCall

\* the options in use are the resolution of what the second call returned,
\* and the hooks called and the write made are those it configures
SecondResultInUse ==
    /\ finalOptions = ResolveOptions(userOptions, request).value
    /\ Called("extensions") => userOptions.extensions
    /\ Called("formatErrorFn") => userOptions.formatErrorFn
    /\ (pc = "done" /\ Len(response.writes) = 1 /\ ~PageWritten) =>
          (response.writes[1].via = "end" <=> userOptions.pretty = "true")

---------------------------------------------------------------------------
(* Options that resolveOptions refuses. *)

\* a resolution of the options threw: the value was not an object, or it
\* held no schema
ConfigurationFailed ==
    /\ pc \in {"catch", "format", "done"}
    /\ \E u \in OptionValues \cup FunctionReturns :
          /\ ~ResolveOptions(u, request).ok
          /\ thrown = One(ResolveOptions(u, request).error)

\* the errors of the result are the one failure that was thrown
FailureListed ==
    /\ result.keys = <<"errors">>
    /\ result.errors = <<MappedError(thrown.items[1])>>

\* the one write of the run is the JSON text of the formatted result
JsonBodyWritten ==
    /\ Len(response.writes) = 1
    /\ response.writes[1].type = "application/json"
    /\ response.writes[1].body =
          Stringify(Formatted(result, finalOptions.defined /\ finalOptions.formatErrorFn),
                    finalOptions.defined /\ finalOptions.pretty)

\* C23: if either resolution of the options yields a value that is not an
\* object or that lacks a schema, the request ends with status 500 and a
\* JSON body whose errors list holds the configuration failure, and
\* parseFn, validateFn and executeFn are never invoked.
C23_ConfigurationFailureIs500 ==
    ConfigurationFailed =>
        /\ None({"parseFn", "validateFn", "executeFn"})
        /\ pc \in {"format", "done"} =>
              /\ response.statusCode = 500
              /\ FailureListed
        /\ pc = "done" => JsonBodyWritten

\* the same on the runs whose write goes through: the response object has
\* the method the write uses and no formatErrorFn is there to throw
C23_ConfigurationFailureIs500WhenWritten ==
    ConfigurationFailed =>
        /\ None({"parseFn", "validateFn", "executeFn"})
        /\ pc \in {"format", "done"} =>
              /\ response.statusCode = 500
              /\ FailureListed
        /\ (pc = "done" /\ (response.kind = "express" \/ finalOptions.pretty)
               /\ ~Called("formatErrorFn")) => JsonBodyWritten

\* the second resolution refused on a response object that only exposes
\* setHeader and end: the status is 500 while nothing is written
C23_FailureNotWritten ==
    /\ ConfigurationFailed
    /\ Called(SecondCall)
    /\ response.kind = "bare"
    /\ pc = "done"
    /\ response.statusCode = 500
    /\ Len(response.writes) = 0
    /\ promise = "rejected"

---------------------------------------------------------------------------
(* The extensions hook. *)

\* the extensions hook has returned
HookReturned == Called("extensions") /\ thrown = Nothing /\ pc \in {"format", "done"}

\* the results the run can hold after the hook was called with the document,
\* the variables and the operation name of the parameters, the result r of
\* executeFn and the resolved context: r itself when the hook returned
\* undefined, else r with the returned value under the key extensions
HookResults(r) ==
    {r} \cup { [r EXCEPT !.keys = WithKey(@, "extensions"), !.extensions = v] :
               v \in {"1", ReportingHook([document |-> documentAST,
                                          variables |-> params.variables,
                                          operationName |-> params.operationName,
                                          result |-> r,
                                          context |-> request])} }

ResultOfHook == \E r \in ExecutionResults : result \in HookResults(r)

\* C24: the extensions hook is called with the parsed document, the
\* variables and the operation name of the parameters, the result of
\* executeFn and the resolved context; a value it returns is carried by the
\* response body under the key extensions, next to the unchanged data and
\* errors of the result, and when it returns undefined the body has no such
\* key.
C24_ExtensionsCarriedInBody ==
    HookReturned =>
        /\ ResultOfHook
        /\ pc = "done" => JsonBodyWritten

\* the same for the runs whose response is written
C24_ExtensionsCarriedWhenWritten ==
    HookReturned =>
        /\ ResultOfHook
        /\ (pc = "done" /\ promise = "resolved") => JsonBodyWritten

\* a written body that carries what the hook reported of a POST request
\* with variables and an operation name
C24_ReportCarried ==
    /\ HookReturned
    /\ JsonBodyWritten
    /\ result.extensions = "21111"

---------------------------------------------------------------------------
(* The statuses of the error mapper. *)

\* the catch clause has mapped what was thrown
Caught == pc \in {"format", "done"} /\ thrown # Nothing

TransportCauseStatus(e) == IF e.status # NoStatus THEN e.status ELSE 500

\* the current status lets the mapper assign its own
StatusOpen(resp) == resp.statusCode = StatusUndefined \/ resp.statusCode < 400

\* C25: the mapper gives an HTTP error its own status, a generic Error and
\* a value that is no Error 500, and an engine-shaped error the status of
\* the transport error it wraps, or 500 when it wraps none; a caught array
\* is mapped element by element, any other value as a list of one element,
\* and every element ends up engine-shaped.  The status of the first element
\* is the one the response takes while its status is unset or below 400.
C25_MapperStatusPerElement ==
    [][pc = "catch" =>
          /\ Len(result'.errors) = Len(thrown.items)
          /\ ~thrown.isArray => Len(result'.errors) = 1
          /\ \A i \in 1..Len(thrown.items) :
                /\ result'.errors[i].kind = "graphql"
                /\ result'.errors[i].message = thrown.items[i].message
          /\ (Len(thrown.items) > 0 /\ StatusOpen(response)) =>
                response'.statusCode =
                    CASE thrown.items[1].kind = "http"    -> thrown.items[1].status
                      [] thrown.items[1].kind = "error"   -> 500
                      [] thrown.items[1].kind = "value"   -> 500
                      [] thrown.items[1].kind = "graphql" ->
                             TransportCauseStatus(thrown.items[1])]_vars

\* an engine-shaped error that wraps a 401 transport error was caught and
\* gave the response its status
C25_WrappedCauseStatus ==
    /\ Caught
    /\ thrown = One(GraphQLError("wrapped", 401, << <<"Retry-After", "2">> >>))
    /\ result.errors = <<GraphQLError("wrapped", 401, << <<"Retry-After", "2">> >>)>>
    /\ response.statusCode = 401

\* C26: the mapper assigns the status of a mapped error only while the
\* status of the response is unset or below 400: the response then takes
\* the status of the first mapped error and keeps it, and a status of 400 or
\* above that an earlier stage set is never replaced.
C26_StatusAssignedWhileOpen ==
    [][pc = "catch" =>
          /\ ~StatusOpen(response) => response'.statusCode = response.statusCode
          /\ (StatusOpen(response) /\ Len(thrown.items) > 0) =>
                response'.statusCode = MappedStatus(thrown.items[1])
          /\ Len(thrown.items) = 0 => response'.statusCode = response.statusCode]_vars

\* a list of a generic Error and a 403 transport error was caught on a
\* response whose status was open: the 500 of the first element is kept
C26_FirstOfTwoKept ==
    /\ Caught
    /\ thrown = Many(<<PlainError("boom"),
                       HttpError(403, "Forbidden", << <<"Retry-After", "1">> >>)>>)
    /\ response.statusCode = 500

\* a 403 transport error thrown by executeFn was caught after the stage had
\* set 400: the 400 stays
C26_EarlierStatusStays ==
    /\ Caught
    /\ LastCall = "executeFn"
    /\ thrown = One(HttpError(403, "Forbidden", << <<"Retry-After", "1">> >>))
    /\ response.statusCode = 400

---------------------------------------------------------------------------
(* The headers of the caught errors. *)

\* every header of the caught element is set on the response
HeadersSet(e) ==
    \A j \in 1..Len(e.headers) : Header(e.headers[j][1]) = e.headers[j][2]

\* C27: the headers of a transport error are always propagated: each header
\* of a caught transport error, and of the transport error that a caught
\* engine-shaped error wraps, is set on the response.
C27_TransportHeadersPropagated ==
    Caught => \A i \in 1..Len(thrown.items) : HeadersSet(thrown.items[i])

\* the same for the caught elements that are transport errors themselves
C27_OwnHeadersPropagated ==
    Caught => \A i \in 1..Len(thrown.items) :
                  thrown.items[i].kind = "http" => HeadersSet(thrown.items[i])

\* the second element of a caught list is a transport error, and its header
\* is set although the status is that of the first element
C27_HeaderOfSecondElement ==
    /\ Caught
    /\ Len(thrown.items) = 2
    /\ thrown.items[2].kind = "http"
    /\ Header("Retry-After") = "1"
    /\ response.statusCode = 500

---------------------------------------------------------------------------
(* The errors of the JSON body. *)

\* a JSON body was written
JsonWritten == Len(response.writes) = 1 /\ response.writes[1].type = "application/json"

\* the formatter in force: the configured one, and toJSON when none is
\* configured or no options were resolved
OutputOfFormatter(e) ==
    IF finalOptions.defined /\ finalOptions.formatErrorFn THEN FormatErrorFn(e)
    ELSE ToJSON(e)

\* C28: every element of the errors array of a JSON body is the output of
\* the configured formatErrorFn for that error, or its toJSON projection
\* when no formatter is configured or no options were resolved, whatever
\* the kind of the failure.
C28_ErrorsAreFormatterOutput ==
    JsonWritten =>
        response.writes[1].body =
            Stringify([keys |-> result.keys, data |-> result.data,
                       extensions |-> result.extensions,
                       errors |-> [i \in 1..Len(result.errors) |->
                                      OutputOfFormatter(result.errors[i])]],
                      finalOptions.defined /\ finalOptions.pretty)

\* a thrown string reaches the body as the output of the configured
\* formatter
C28_ThrownStringFormatted ==
    /\ JsonWritten
    /\ thrown = One(NonError("a string"))
    /\ finalOptions.defined /\ finalOptions.formatErrorFn /\ ~finalOptions.pretty
    /\ response.writes[1].body = "{\"errors\":[{\"message\":\"formatted\"}]}"

\* a failure of the first resolution reaches the body by toJSON
C28_UnresolvedOptionsProjected ==
    /\ JsonWritten
    /\ ~finalOptions.defined
    /\ response.writes[1].body = "{\"errors\":[{\"message\":\"boom\"}]}"

---------------------------------------------------------------------------
(* The options of the interactive page. *)

\* protocol + '://' + the x-forwarded-host header if present, else the host
\* header, + the path of the url without its query string
ExpectedDefaultUrl ==
    request.protocol \o "://"
        \o (IF request.forwardedHost = Undefined THEN request.host
            ELSE request.forwardedHost.s)
        \o request.originalUrl[1]

\* C29: when the graphiql option is a boolean or absent, the resolved
\* options of the page are a default whose fetcher url is the protocol,
\* '://', the x-forwarded-host header if present or else the host header,
\* and the path of the request without its query string; when the option is
\* an object, the resolved fetcher is the default fetcher overlaid by the
\* fields of the user's fetcher, so that the user's url or subscriptionUrl
\* wins, and the user's other props are kept.
C29_ResolvedGraphiqlOptions ==
    finalOptions.defined =>
        /\ userOptions.graphiql \in {"undefined", "false", "true"} =>
              finalOptions.graphiql = [fetcher |-> [url |-> ExpectedDefaultUrl]]
        /\ userOptions.graphiql = "object" =>
              finalOptions.graphiql =
                  [fetcher |-> [url |-> ExpectedDefaultUrl,
                                subscriptionUrl |-> UserSubscriptionUrl]]
        /\ userOptions.graphiql = "url" =>
              finalOptions.graphiql =
                  [fetcher |-> [url |-> UserFetcherUrl], defaultQuery |-> UserDefaultQuery]
        /\ userOptions.graphiql = "props" =>
              finalOptions.graphiql =
                  [fetcher |-> [url |-> ExpectedDefaultUrl],
                   defaultQuery |-> UserDefaultQuery]

\* behind a proxy, with a query string of two question marks: the default
\* url names the forwarded host and the path alone
C29_ForwardedHostAndPath ==
    /\ finalOptions.defined
    /\ userOptions.graphiql = "true"
    /\ request.forwardedHost = Str("proxy.example.org")
    /\ Len(request.originalUrl) = 5
    /\ finalOptions.graphiql.fetcher.url = "https://proxy.example.org/api/graphql"

\* the user's fetcher url replaces the default one and the defaultQuery is
\* kept
C29_UserUrlWins ==
    /\ finalOptions.defined
    /\ userOptions.graphiql = "url"
    /\ finalOptions.graphiql.fetcher.url = UserFetcherUrl
    /\ finalOptions.graphiql.defaultQuery = UserDefaultQuery
    /\ PageWritten

---------------------------------------------------------------------------
(* Two runs on the same request data. *)

\* the second run has ended
SecondRunDone == previous.ran /\ pc = "done"

\* the hooks of the second run did what they did in the first
SameHookOutcomes == HookOutcomes = previous.outcomes

C30_SamePageTwice ==
    /\ SecondRunDone
    /\ SameHookOutcomes
    /\ PageWritten
    /\ response = previous.response

---------------------------------------------------------------------------
(* The place of the method check. *)

\* the request has a method the handler does not support
OtherMethod == request.method \notin {"GET", "POST"}

\* C33: the method check is the first stage of the pipeline: for a request
\* whose method is neither GET nor POST the options function is never
\* invoked and the body is never read or parsed.
C33_MethodCheckedFirst ==
    OtherMethod => None({FirstCall, SecondCall, "getGraphQLParams"})

\* what holds of such a request: no stage after the method check is entered
C33_MethodCheckedBeforeEngine ==
    OtherMethod =>
        /\ None({"validateSchema", "parseFn", "validateFn", "executeFn", "extensions"})
        /\ ~PageWritten

\* a PUT request whose body was read and for which the options function was
\* called twice before the 405
C33_PutReadAndResolved ==
    /\ OtherMethod
    /\ pc = "done"
    /\ OptionsCalls = <<FirstCall, SecondCall>>
    /\ Called("getGraphQLParams")
    /\ Len(request.chunks) > 0
    /\ response.statusCode = 405

---------------------------------------------------------------------------
(* The order of the engine calls. *)

EngineOrder == <<"validateSchema", "parseFn", "validateFn", "executeFn", "extensions">>

\* the engine calls of the run so far, in order
EngineCalls ==
    SelectSeq(calls, LAMBDA c : \E i \in 1..Len(EngineOrder) : c = EngineOrder[i])

\* the step calls one of the five
EngineStep == SelectSeq(calls', LAMBDA c : \E i \in 1..Len(EngineOrder) : c = EngineOrder[i])
                  # EngineCalls

\* C34: within one run validateSchema, parseFn, validateFn, executeFn and
\* the extensions hook are each invoked at most once and only in that order,
\* each only after the one before finished without failure (a valid schema,
\* a document returned, no validation error, the operation gate passed,
\* executeFn returned); the extensions hook is never invoked once something
\* was thrown.
C34_EngineCallsInOrder ==
    /\ [](/\ EngineCalls = SubSeq(EngineOrder, 1, Len(EngineCalls))
          /\ Called("parseFn") => finalOptions.schema = "valid"
          /\ Called("validateFn") => documentAST \in Documents
          /\ Called("executeFn") =>
                /\ ~(request.method = "GET" /\ \E i \in 1..Len(documentAST) :
                        Selected(i) /\ documentAST[i].operation # "query")
                /\ ~FailedIn("validateFn")
          /\ Called("extensions") => (\E r \in ExecutionResults : result.data = r.data)
                                       /\ ~FailedIn("executeFn"))
    /\ [][EngineStep => thrown = Nothing]_vars

\* all five were called, in order, and the hook returned a value
C34_AllFiveCalled ==
    /\ EngineCalls = EngineOrder
    /\ pc = "done"
    /\ result.extensions = "1"

---------------------------------------------------------------------------
(* A failure of the extensions hook. *)

\* the extensions hook threw or rejected, on a response that was still at
\* 200 when executeFn returned
HookFailedAt200 ==
    /\ FailedIn("extensions")
    /\ response.kind = "express"
    /\ pc = "done"

---------------------------------------------------------------------------
(* A failed extraction of the parameters. *)

\* getGraphQLParams was called and rejected with one of its HTTP errors
ExtractionFailed ==
    /\ Called("getGraphQLParams")
    /\ ~GetGraphQLParams(request).ok
    /\ GetGraphQLParams(request).error.status \in {400, 413, 415}

\* the error getGraphQLParams rejected with
ExtractionError == GetGraphQLParams(request).error

\* the options of the first resolution
FirstResolution == ResolveOptions(firstUserOptions, request).value

---------------------------------------------------------------------------
(* The stages after the interactive page of lines 70-73. *)

AfterPageStages == {"schema", "parse", "validate", "gate", "execute", "extensions"}

\* the operation getOperationAST selects is a mutation or a subscription
SelectsNonQuery ==
    \E i \in 1..Len(documentAST) :
        Selected(i) /\ documentAST[i].operation \in {"mutation", "subscription"}

\* C38: at every stage after the interactive-page short circuit
\* showGraphiQL is false: the operation gate never answers with the page,
\* and every GET that reaches the gate with a mutation or a subscription
\* ends in 405.
C38_NoPageAfterShortCircuit ==
    /\ pc \in AfterPageStages => ~showGraphiQL
    /\ Called("validateSchema") => ~showGraphiQL /\ ~PageWritten
    /\ (request.method = "GET" /\ Called("getOperationAST") /\ SelectsNonQuery) =>
          /\ FailedIn("getOperationAST")
          /\ thrown.items[1].status = 405
          /\ pc \in {"format", "done"} => StatusIs(405) /\ Header("Allow") = "POST"

\* a mutation sent by GET to a handler whose interactive page is enabled,
\* by a client that does not prefer HTML: refused with 405 at the gate
C38_MutationRefusedWithPageEnabled ==
    /\ request.method = "GET"
    /\ GraphiqlToggle(userOptions)
    /\ Called("getOperationAST")
    /\ SelectsNonQuery
    /\ pc = "done"
    /\ response.statusCode = 405
    /\ ~PageWritten

---------------------------------------------------------------------------
(* The status of a response and what its body carries. *)

\* a JSON body was written on a response that started at 200
JsonSentFrom200 ==
    /\ response.kind = "express"
    /\ pc = "done"
    /\ \E i \in 1..Len(response.writes) : response.writes[i].type = "application/json"

\* the errors list of the result was assigned by the catch clause
ErrorsFromCatch == thrown # Nothing /\ pc \in {"format", "done"}

CarriesData == result.data \notin {"", "null"}

\* C39: for a response whose status starts at 200, every JSON response
\* sent with status 200 carries non-null data, and every response whose
\* errors list was produced by the catch clause has a status of 400 or
\* above.
C39_StatusMatchesBody ==
    /\ (JsonSentFrom200 /\ response.statusCode = 200) => CarriesData
    /\ (response.kind = "express" /\ ErrorsFromCatch) => response.statusCode >= 400

\* the same for the runs in which the value thrown is not an empty list
C39_StatusMatchesBodyOfNonEmpty ==
    thrown.items # <<>> \/ thrown = Nothing =>
        /\ (JsonSentFrom200 /\ response.statusCode = 200) => CarriesData
        /\ (response.kind = "express" /\ ErrorsFromCatch) => response.statusCode >= 400

\* the options function throws an empty list: 200 with an empty errors list
\* and no data
C39_EmptyListThrownIs200 ==
    /\ JsonSentFrom200
    /\ thrown = Many(<<>>)
    /\ LastCall = FirstCall
    /\ response.statusCode = 200
    /\ response.writes[1].body = "{\"errors\":[]}"

---------------------------------------------------------------------------
(* The connection closing while the body is read. *)

\* the connection closes before the body of the request is whole
ConnectionCloses == \E i \in 1..Len(request.chunks) : request.chunks[i] = Closed

\* the content encoding of the stream the loop of decompressed reads
EncodingRead ==
    IF request.contentEncoding.t = "undefined" THEN "identity"
    ELSE ToLowerCase(request.contentEncoding.s)

\* the handler wrote the error response of a failed read
ReadFailureAnswered ==
    /\ pc = "done"
    /\ thrown # Nothing
    /\ LastCall = "getGraphQLParams"
    /\ response.statusCode >= 400
    /\ JsonBodyWritten

\* C35: if the underlying connection closes while the body is being read,
\* for each of the identity, gzip and deflate encodings, the read of the
\* body terminates with a failure instead of waiting forever, and the
\* handler then writes a mapped error response.
C35_ClosedReadFails == ConnectionCloses ~> ReadFailureAnswered

\* the same for the body read from the request itself
C35_ClosedIdentityReadFails ==
    (ConnectionCloses /\ EncodingRead = "identity") ~> ReadFailureAnswered

\* a run waiting for the rest of a compressed body, nothing written
C35_CompressedReadWaits ==
    /\ ConnectionCloses
    /\ EncodingRead = "gzip"
    /\ pc = "awaiting"
    /\ promise = "pending"
    /\ response.writes = <<>>

\* the read of a plain body cut by the connection, answered with 500
C35_PlainReadAnswered500 ==
    /\ ConnectionCloses
    /\ EncodingRead = "identity"
    /\ ReadFailureAnswered
    /\ response.statusCode = 500

---------------------------------------------------------------------------
(* The values of the request in the script of the interactive page. *)

\* the run answered with the page
PageSent ==
    /\ pc = "done"
    /\ Len(response.writes) = 1
    /\ response.writes[1].type = "text/html"
    /\ response.writes[1].body = TextOf(PagePieces(params, finalOptions.graphiql))

\* the three literals of the page made of the parameters
ParamLiterals ==
    <<PropLiteral(params.query), PropLiteral(params.variables),
      PropLiteral(params.operationName)>>

\* a parameter of the request holds a '/'
SlashInParams ==
    \E v \in {params.query, params.variables, params.operationName} :
        v.t # "undefined" /\ \E i \in 1..Len(StringifyParam(v)) : StringifyParam(v)[i] = "/"

\* C32: in the rendered interactive page the embedded literals for query,
\* variables and operationName contain no unescaped forward slash: every
\* '/' coming from those request values is emitted preceded by a backslash,
\* so a '</script>' sequence supplied in them never appears verbatim in the
\* HTML.
C32_ParamLiteralsEscaped ==
    PageWritten =>
        /\ PageSent
        /\ \A i \in 1..3 :
              /\ SlashesEscaped(ParamLiterals[i])
              /\ ~HoldsScriptEnd(ParamLiterals[i])
        /\ SlashesEscaped(PropsString(params, finalOptions.graphiql))
        /\ \A i \in 1..3 :
              \E j \in 0..(Len(PagePieces(params, finalOptions.graphiql))
                                - Len(ParamLiterals[i])) :
                  SubSeq(PagePieces(params, finalOptions.graphiql), j + 1,
                         j + Len(ParamLiterals[i])) = ParamLiterals[i]

\* a page whose query and operation name are '</script>' and whose
\* variables hold '</b>'
C32_ScriptEndInEveryParam ==
    /\ PageSent
    /\ params.query = Str(ScriptEnd)
    /\ params.operationName = Str(ScriptEnd)
    /\ params.variables # Undefined
    /\ SlashInParams
    /\ ParamLiterals[1] = <<"\"", "\\", "\"", "<", "\\", "\\", "/", "script>", "\\", "\"", "\"">>

\* C40: the default fetch URL embedded in the script of the interactive
\* page, which is built from the x-forwarded-host or host header of the
\* request and its path, is escaped like the query literal: a '</script>'
\* sequence supplied in those request fields never appears verbatim in the
\* rendered HTML.
C40_FetcherUrlEscaped ==
    PageWritten =>
        /\ PageSent
        /\ ~HoldsScriptEnd(PagePieces(params, finalOptions.graphiql))

\* the page of a request whose Host header is '</script>', with the header
\* in the url of the fetcher as it came
C40_ScriptEndOfHostInPage ==
    /\ PageSent
    /\ request.host = ScriptEnd
    /\ request.forwardedHost = Undefined
    /\ params.query = Str(QueryText)
    /\ HoldsScriptEnd(FetcherLiteral(finalOptions.graphiql.fetcher))
    /\ FetcherLiteral(finalOptions.graphiql.fetcher) =
          <<"{\"url\":", "\"", "http:", "/", "/", "<", "/", "script>", "/", "graphql",
            "\"", "}">>

---------------------------------------------------------------------------
(* Two runs that share the options. *)

\* the runs of the handler: the one running and the one suspended, if any
Runs == {Locals} \cup (IF other = NoOther THEN {} ELSE {other})

\* what the hooks of a run did (as HookOutcomes, for any of the runs)
OutcomesOf(l) ==
    <<l.firstUserOptions, l.userOptions, l.documentAST, l.thrown, l.result, l.calls>>

\* the page the request of a run is answered with when it is run alone
PageAlone(req) ==
    RespondWithGraphiQL(NewResponse("express"), GetGraphQLParams(req).value,
                        ResolveOptions(options.value, req).value.graphiql)

\* the response of a finished run is the one its request gets alone: the
\* page made of the request and the options, or the JSON of the result its
\* own hooks gave
AnsweredAsAlone(l) ==
    /\ l.promise = "resolved"
    /\ Len(l.response.writes) = 1
    /\ IF l.response.writes[1].type = "text/html"
       THEN l.response = PageAlone(l.request)
       ELSE l.response.writes[1].body = Stringify(Formatted(l.result, FALSE), FALSE)

C31_OptionsNeverWritten == [][options' = options /\ callerGraphiql' = callerGraphiql]_vars

C31_TwoPages ==
    /\ pc = "done" /\ other.pc = "done"
    /\ PageSent
    /\ other.response = PageAlone(other.request)
    /\ params.query = Str(QueryText)
    /\ other.params.query = Str(ScriptEnd)
    /\ response # other.response

====
